---- MODULE Spec2Model ----
(***************************************************************************)
(* Bank-statement ingestion and normalisation pipeline of                  *)
(* backend/app/services/risk_service.py.                                   *)
(*                                                                         *)
(* Text is a sequence of one-character strings, so that trimming, case     *)
(* folding, substring search and numeric clean-up are computed character   *)
(* by character as the code does.  Money is an integer number of           *)
(* hundredths (45000.00 is 4500000); digits after the second decimal       *)
(* place of an input are outside the modelled inputs.                      *)
(***************************************************************************)
EXTENDS Integers, Sequences, FiniteSets, Bags, TLC

\* one invocation of analyze_bank_statement: its arguments, its position and
\* its locals
VARIABLES contents, filename, pc, loaders, li, called, raw, tag, canon, detected, result

\* the invocations of analyze_bank_statement that are suspended while another
\* one runs: a bag of their arguments, positions and locals
VARIABLES parked

\* CashLedgerService: the entries file, the holder of the lock and the calls
\* of add_entry in progress
VARIABLES storage, lock, adds

\* one call of assess_risk and one call of recommend_loans
VARIABLES risk, loans

otherServices == <<storage, lock, adds, risk, loans>>

statement ==
    <<contents, filename, pc, loaders, li, called, raw, tag, canon, detected, result, parked>>

vars ==
    <<contents, filename, pc, loaders, li, called, raw, tag, canon, detected, result,
      parked, otherServices>>

(***************************************************************************)
(* Characters and strings                                                  *)
(***************************************************************************)
UpperChars == <<"A","B","C","D","E","F","G","H","I","J","K","L","M","N","O","P","Q","R","S","T","U","V","W","X","Y","Z">>

LowerChars == <<"a","b","c","d","e","f","g","h","i","j","k","l","m","n","o","p","q","r","s","t","u","v","w","x","y","z">>

Digits == <<"0","1","2","3","4","5","6","7","8","9">>

DigitSet == {Digits[i] : i \in 1..Len(Digits)}

LowerSet == {LowerChars[i] : i \in 1..Len(LowerChars)}

UpperSet == {UpperChars[i] : i \in 1..Len(UpperChars)}

\* str.lower() on one character
LowerChar(c) ==
    IF c \in UpperSet
    THEN LowerChars[CHOOSE i \in 1..Len(UpperChars) : UpperChars[i] = c]
    ELSE c

\* str.lower()
Lower(s) == [i \in 1..Len(s) |-> LowerChar(s[i])]

IsSpace(c) == c \in {" ", "\t"}

RECURSIVE LStrip(_)
LStrip(s) == IF s # << >> /\ IsSpace(Head(s)) THEN LStrip(Tail(s)) ELSE s

RECURSIVE RStrip(_)
RStrip(s) ==
    IF s # << >> /\ IsSpace(s[Len(s)]) THEN RStrip(SubSeq(s, 1, Len(s) - 1)) ELSE s

\* str.strip()
Strip(s) == RStrip(LStrip(s))

\* k in s  (Python substring test)
Contains(s, k) ==
    \E i \in 0..(Len(s) - Len(k)) : SubSeq(s, i + 1, i + Len(k)) = k

\* any(k in s for k in keys)
ContainsAny(s, keys) == \E j \in 1..Len(keys) : Contains(s, keys[j])

IsAlnumLower(c) == c \in LowerSet \cup DigitSet

\* NormalizeColName without .lower()
NormalizeColNameNoLower(name) == SelectSeq(Strip(name), IsAlnumLower)

\* re.sub(r"[^a-z0-9]+", "", str(name).strip().lower())
NormalizeColName(name) == SelectSeq(Lower(Strip(name)), IsAlnumLower)

(***************************************************************************)
(* Numbers: values are integers counting hundredths                        *)
(***************************************************************************)
DigitVal(c) == (CHOOSE i \in 1..Len(Digits) : Digits[i] = c) - 1

Abs(x) == IF x < 0 THEN -x ELSE x

RECURSIVE DigitsToInt(_)
DigitsToInt(ds) ==
    IF ds = << >> THEN 0
    ELSE 10 * DigitsToInt(SubSeq(ds, 1, Len(ds) - 1)) + DigitVal(ds[Len(ds)])

\* the hundredths given by the digits after a decimal point
FracToCents(fs) ==
    IF fs = << >> THEN 0
    ELSE IF Len(fs) = 1 THEN 10 * DigitVal(fs[1])
    ELSE 10 * DigitVal(fs[1]) + DigitVal(fs[2])

IsDigit(c) == c \in DigitSet

AllDigits(s) == \A i \in 1..Len(s) : IsDigit(s[i])

\* position of the first "." of s, 0 if none
DotPos(s) ==
    IF \E i \in 1..Len(s) : s[i] = "."
    THEN CHOOSE i \in 1..Len(s) : s[i] = "." /\ \A j \in 1..(i - 1) : s[j] # "."
    ELSE 0

\* a parsed number or the missing value (NaN)
NaN == [nan |-> TRUE, v |-> 0]

Num(x) == [nan |-> FALSE, v |-> x]

\* the text before and after the decimal point at position d (0: no point)
IntPart(s, d) == IF d = 0 THEN s ELSE SubSeq(s, 1, d - 1)

FracPart(s, d) == IF d = 0 THEN << >> ELSE SubSeq(s, d + 1, Len(s))

\* digits, optional point, digits, with at least one digit
UnsignedValue(ip, fp) ==
    IF AllDigits(ip) /\ AllDigits(fp) /\ Len(ip) + Len(fp) > 0
    THEN Num(100 * DigitsToInt(ip) + FracToCents(fp))
    ELSE NaN

ParseUnsignedAt(s, d) == UnsignedValue(IntPart(s, d), FracPart(s, d))

ParseUnsigned(s) == ParseUnsignedAt(s, DotPos(s))

Negate(x) == IF x.nan THEN NaN ELSE Num(-x.v)

\* pd.to_numeric(text, errors="coerce") and float(text) on one cleaned
\* string; NaN stands for the value that does not parse
ParseFloat(s) ==
    IF s # << >> /\ Head(s) = "-" THEN Negate(ParseUnsigned(Tail(s))) ELSE ParseUnsigned(s)

RECURSIVE IntDigits(_)
IntDigits(n) ==
    IF n < 10 THEN <<Digits[n + 1]>>
    ELSE Append(IntDigits(n \div 10), Digits[(n % 10) + 1])

\* the fractional digits of str(float) for f hundredths
FracDigits(f) ==
    IF f % 10 = 0 THEN <<Digits[(f \div 10) + 1]>>
    ELSE <<Digits[(f \div 10) + 1], Digits[(f % 10) + 1]>>

\* str(float): shortest decimal form with at least one fractional digit
FloatStr(x) ==
    (IF x < 0 THEN <<"-">> ELSE << >>)
    \o IntDigits(Abs(x) \div 100) \o <<".">> \o FracDigits(Abs(x) % 100)

(***************************************************************************)
(* Cells and tables (pandas DataFrame)                                     *)
(***************************************************************************)
\* a text cell, a float cell, a missing cell
StrCell(s) == [k |-> "str", s |-> s, v |-> 0]

FloatCell(x) == [k |-> "float", s |-> << >>, v |-> x]

NaNCell == [k |-> "nan", s |-> << >>, v |-> 0]

\* Series.astype(str) on one cell
AsStr(c) ==
    CASE c.k = "str" -> c.s
      [] c.k = "float" -> FloatStr(c.v)
      [] OTHER -> <<"n","a","n">>

IsNumericChar(c) == c \in DigitSet \cup {".", "-"}

\* the cleaned text of a cell as a number
CleanedValue(cleaned) ==
    IF cleaned \in {<< >>, <<"-">>, <<".">>, <<"-","-">>} THEN NaN ELSE ParseFloat(cleaned)

\* _to_numeric on one cell
ToNumeric(c) == CleanedValue(SelectSeq(AsStr(c), IsNumericChar))

(***************************************************************************)
(* _extract_text_transactions                                              *)
(***************************************************************************)
\* end of the longest run of characters satisfying the class, starting at
\* position i (i - 1 when the run is empty)
RECURSIVE DigitRunEnd(_, _)
DigitRunEnd(s, i) ==
    IF i <= Len(s) /\ IsDigit(s[i]) THEN DigitRunEnd(s, i + 1) ELSE i - 1

RECURSIVE DigitCommaRunEnd(_, _)
DigitCommaRunEnd(s, i) ==
    IF i <= Len(s) /\ (IsDigit(s[i]) \/ s[i] = ",")
    THEN DigitCommaRunEnd(s, i + 1) ELSE i - 1

\* the rest of amount_re after the run [\d,]* that ends at e1: \.?\d*
AfterPoint(s, e1) ==
    DigitRunEnd(s, (IF e1 + 1 <= Len(s) /\ s[e1 + 1] = "." THEN e1 + 1 ELSE e1) + 1)

\* \d[\d,]*\.?\d* with its first digit at position j
MatchFrom(s, j) == AfterPoint(s, DigitCommaRunEnd(s, j + 1))

\* amount_re = [-+]?\d[\d,]*\.?\d*  matched at position i: the end of the
\* match, 0 when there is none
AmountMatchEnd(s, i) ==
    IF IsDigit(s[i]) THEN MatchFrom(s, i)
    ELSE IF s[i] \in {"-", "+"} /\ i + 1 <= Len(s) /\ IsDigit(s[i + 1])
    THEN MatchFrom(s, i + 1)
    ELSE 0

RECURSIVE AmountFindAll(_, _)

\* findall's step at position i, where a match ends at e (0: no match)
FindAllStep(s, i, e) ==
    IF e = 0 THEN AmountFindAll(s, i + 1)
    ELSE <<SubSeq(s, i, e)>> \o AmountFindAll(s, e + 1)

\* amount_re.findall(line) from position i on
AmountFindAll(s, i) ==
    IF i > Len(s) THEN << >> ELSE FindAllStep(s, i, AmountMatchEnd(s, i))

NotComma(c) == c # ","

StripPlus(t) == IF t # << >> /\ Head(t) = "+" THEN Tail(t) ELSE t

\* float(n.replace(",", "")); NaN stands for the ValueError
TokenFloat(n) == ParseFloat(StripPlus(SelectSeq(n, NotComma)))

\* parsed_numbers.append(...) unless float() raised
Parsed(x) == IF x.nan THEN << >> ELSE <<x.v>>

RECURSIVE ParsedNumbers(_)
ParsedNumbers(numbers) ==
    IF numbers = << >> THEN << >>
    ELSE Parsed(TokenFloat(Head(numbers))) \o ParsedNumbers(Tail(numbers))

IsWordChar(c) == c \in LowerSet \cup UpperSet \cup DigitSet \cup {"_", "U+00FF"}

\* \b at the gap after position i of s (0 <= i <= Len(s))
WordBoundary(s, i) ==
    (i >= 1 /\ IsWordChar(s[i])) # (i + 1 <= Len(s) /\ IsWordChar(s[i + 1]))

\* the digit counts of the three groups of date_re, in the order in which
\* the regex engine tries them: \d{1,2}[/-]\d{1,2}[/-]\d{2,4} first, then
\* \d{4}[/-]\d{1,2}[/-]\d{1,2}, each quantifier greedy
DateShapes ==
    << <<2, 2, 4>>, <<2, 2, 3>>, <<2, 2, 2>>, <<2, 1, 4>>, <<2, 1, 3>>, <<2, 1, 2>>,
       <<1, 2, 4>>, <<1, 2, 3>>, <<1, 2, 2>>, <<1, 1, 4>>, <<1, 1, 3>>, <<1, 1, 2>>,
       <<4, 2, 2>>, <<4, 2, 1>>, <<4, 1, 2>>, <<4, 1, 1>> >>

IsDateSep(c) == c \in {"/", "-"}

\* digits from i, a separator at p1, digits, a separator at p2, digits up to
\* e, between word boundaries
DateMatches(s, i, p1, p2, e) ==
    /\ e <= Len(s)
    /\ WordBoundary(s, i - 1)
    /\ AllDigits(SubSeq(s, i, p1 - 1))
    /\ IsDateSep(s[p1])
    /\ AllDigits(SubSeq(s, p1 + 1, p2 - 1))
    /\ IsDateSep(s[p2])
    /\ AllDigits(SubSeq(s, p2 + 1, e))
    /\ WordBoundary(s, e)

\* one shape of date_re matched at position i: the end of the match, else 0
DateShapeEnd(s, i, sh) ==
    IF DateMatches(s, i, i + sh[1], i + sh[1] + 1 + sh[2], i + sh[1] + 1 + sh[2] + sh[3])
    THEN i + sh[1] + 1 + sh[2] + sh[3]
    ELSE 0

DateMatchesAt(s, i) == \E k \in 1..Len(DateShapes) : DateShapeEnd(s, i, DateShapes[k]) # 0

\* the leftmost position at which date_re matches
FirstDatePos(s) ==
    CHOOSE a \in 1..Len(s) : DateMatchesAt(s, a) /\ \A b \in 1..(a - 1) : ~DateMatchesAt(s, b)

\* the first shape, in the engine's order, that matches at position i
FirstShape(s, i) ==
    CHOOSE a \in 1..Len(DateShapes) :
        /\ DateShapeEnd(s, i, DateShapes[a]) # 0
        /\ \A b \in 1..(a - 1) : DateShapeEnd(s, i, DateShapes[b]) = 0

DateAt(s, i) == SubSeq(s, i, DateShapeEnd(s, i, DateShapes[FirstShape(s, i)]))

\* date_match.group(0) if date_match else ""
DateSearch(s) ==
    IF \E i \in 1..Len(s) : DateMatchesAt(s, i) THEN DateAt(s, FirstDatePos(s)) ELSE << >>

CreditWords == <<<<"c","r","e","d","i","t">>, <<"c","r">>, <<"s","a","l","a","r","y">>, <<"d","e","p","o","s","i","t">>, <<"r","e","f","u","n","d">>, <<"r","e","c","e","i","v","e","d">>>>

DebitWords == <<<<"d","e","b","i","t">>, <<"d","r">>, <<"w","i","t","h","d","r","a","w">>, <<"s","p","e","n","t">>, <<"p","u","r","c","h","a","s","e">>, <<"p","a","y","m","e","n","t">>>>

\* LowerLineType without the credit words
LowerLineTypeDebitOnly(lower) == <<"d","e","b","i","t">>

\* the type given to a lower-cased line
LowerLineType(lower) ==
    IF ContainsAny(lower, CreditWords) THEN <<"c","r","e","d","i","t">>
    ELSE IF ContainsAny(lower, DebitWords) THEN <<"d","e","b","i","t">>
    ELSE <<"d","e","b","i","t">>

TextLineType(line) == LowerLineType(Lower(line))

MinLineLen == 5

TextColumns == <<<<"d","a","t","e">>, <<"d","e","s","c","r","i","p","t","i","o","n">>, <<"a","m","o","u","n","t">>, <<"b","a","l","a","n","c","e">>, <<"t","y","p","e">>>>

\* TextRow taking the balance from the last number even when it is the only one
TextRowBalanceAlways(line, parsed_numbers) ==
    << StrCell(DateSearch(line)),
       StrCell(line),
       FloatCell(Abs(parsed_numbers[1])),
       FloatCell(Abs(parsed_numbers[Len(parsed_numbers)])),
       StrCell(TextLineType(line)) >>

\* rows.append({...}) for a line and its parsed numbers
TextRow(line, parsed_numbers) ==
    << StrCell(DateSearch(line)),
       StrCell(line),
       FloatCell(Abs(parsed_numbers[1])),
       IF Len(parsed_numbers) >= 2
       THEN FloatCell(Abs(parsed_numbers[Len(parsed_numbers)]))
       ELSE NaNCell,
       StrCell(TextLineType(line)) >>

RowsOfParsed(line, parsed_numbers) ==
    IF parsed_numbers = << >> THEN << >> ELSE <<TextRow(line, parsed_numbers)>>

RowsOfNumbers(line, numbers) ==
    IF numbers = << >> THEN << >> ELSE RowsOfParsed(line, ParsedNumbers(numbers))

\* the line without the characters of its date match
WithoutDate(line) ==
    IF DateSearch(line) = << >> THEN line
    ELSE SubSeq(line, 1, FirstDatePos(line) - 1)
         \o SubSeq(line, FirstDatePos(line) + Len(DateSearch(line)), Len(line))

\* RowsOfLine scanning for numbers outside the date match only
RowsOfLineDateExcluded(line) ==
    IF Len(line) < MinLineLen THEN << >>
    ELSE RowsOfNumbers(line, AmountFindAll(WithoutDate(line), 1))

RowsOfLine(line) ==
    IF Len(line) < MinLineLen THEN << >> ELSE RowsOfNumbers(line, AmountFindAll(line, 1))

\* the rows appended for one raw line: none, or one
TextLineRows(raw_line) == RowsOfLine(Strip(raw_line))

RECURSIVE TextRows(_)
TextRows(lines) ==
    IF lines = << >> THEN << >> ELSE TextLineRows(Head(lines)) \o TextRows(Tail(lines))

\* a DataFrame: column labels and rows of cells
Frame(columns, rows) == [columns |-> columns, rows |-> rows]

EmptyFrame == Frame(<< >>, << >>)

\* DataFrame.empty
IsEmpty(df) == Len(df.columns) = 0 \/ Len(df.rows) = 0

\* pd.DataFrame(rows)
FrameOfRows(rows) == IF rows = << >> THEN EmptyFrame ELSE Frame(TextColumns, rows)

\* _extract_text_transactions(text), text given as its lines
ExtractTextTransactions(lines) == FrameOfRows(TextRows(lines))

(***************************************************************************)
(* Column resolver                                                         *)
(***************************************************************************)
\* an optional column label: << >> is None, <<label>> is the label
None == << >>

Some(col) == <<col>>

\* Python truthiness of an optional label: None and "" are false
Truthy(opt) == opt # None /\ opt[1] # << >>

\* the least element of a non-empty set of integers
MinOf(S) == CHOOSE a \in S : \A b \in S : a <= b

\* the positions of the columns whose normalised label contains the keyword
HitsOf(columns, key) ==
    {i \in 1..Len(columns) : Contains(NormalizeColName(columns[i]), key)}

\* the keywords, by position, that some column contains
MatchingKeys(columns, keywords) ==
    {k \in 1..Len(keywords) : HitsOf(columns, keywords[k]) # {}}

FirstHit(columns, hits) == Some(columns[MinOf(hits)])

FindByKey(columns, keywords, matching) ==
    IF matching = {} THEN None
    ELSE FirstHit(columns, HitsOf(columns, keywords[MinOf(matching)]))

\* the keywords, by position, that the normalised label of column i contains
KeysIn(columns, keywords, i) ==
    {k \in 1..Len(keywords) : Contains(NormalizeColName(columns[i]), keywords[k])}

\* _find_column with the loops exchanged: the first column that contains
\* any keyword
FindColumnByColumn(columns, keywords) ==
    IF \A i \in 1..Len(columns) : KeysIn(columns, keywords, i) = {} THEN None
    ELSE Some(columns[MinOf({i \in 1..Len(columns) : KeysIn(columns, keywords, i) # {}})])

\* _find_column: the outer loop runs over the keywords, the inner one over
\* the columns, and the first hit is returned
FindColumn(columns, keywords) ==
    FindByKey(columns, keywords, MatchingKeys(columns, keywords))

DateKeywords == <<<<"d","a","t","e">>, <<"v","a","l","u","e","d","a","t","e">>, <<"p","o","s","t","d","a","t","e">>, <<"t","x","n","d","a","t","e">>, <<"t","r","a","n","s","a","c","t","i","o","n","d","a","t","e">>>>

BalanceKeywords ==
    <<<<"b","a","l","a","n","c","e">>, <<"r","u","n","n","i","n","g","b","a","l","a","n","c","e">>, <<"a","v","a","i","l","a","b","l","e","b","a","l","a","n","c","e">>, <<"c","l","o","s","i","n","g","b","a","l","a","n","c","e">>,
      <<"r","u","n","n","i","n","g","b","a","l">>, <<"c","l","o","s","i","n","g","b","a","l">>, <<"a","v","a","i","l","b","a","l">>, <<"b","a","l">>>>

TypeKeywords == <<<<"d","r","c","r">>, <<"d","e","b","i","t","c","r","e","d","i","t">>, <<"t","r","a","n","s","t","y","p","e">>, <<"t","y","p","e">>>>

DescriptionKeywords ==
    <<<<"d","e","s","c","r","i","p","t","i","o","n">>, <<"n","a","r","r","a","t","i","o","n">>, <<"r","e","m","a","r","k","s">>, <<"d","e","t","a","i","l","s">>, <<"p","a","r","t","i","c","u","l","a","r">>,
      <<"m","e","r","c","h","a","n","t">>, <<"n","o","t","e">>>>

DebitKeywords == <<<<"d","e","b","i","t">>, <<"w","i","t","h","d","r","a","w">>, <<"d","r","a","m","o","u","n","t">>, <<"d","r">>>>

\* CreditKeywords without the abbreviation "cr"
CreditKeywordsSpelledOut == <<<<"c","r","e","d","i","t">>, <<"d","e","p","o","s","i","t">>, <<"c","r","a","m","o","u","n","t">>>>

CreditKeywords == <<<<"c","r","e","d","i","t">>, <<"d","e","p","o","s","i","t">>, <<"c","r","a","m","o","u","n","t">>, <<"c","r">>>>

AmountKeywords == <<<<"a","m","o","u","n","t">>, <<"t","x","n","a","m","o","u","n","t">>, <<"t","r","a","n","s","a","c","t","i","o","n","a","m","o","u","n","t">>, <<"a","m","t">>>>

\* the positions of the columns of a frame that carry the label
Positions(columns, col) == {i \in 1..Len(columns) : columns[i] = col}

\* the cell of a row under a label that occurs once
CellAt(columns, row, opt) == row[CHOOSE i \in Positions(columns, opt[1]) : TRUE]

\* number of rows whose cell in column i coerces to a number
NumericCount(df, i) == Cardinality({r \in 1..Len(df.rows) : ~ToNumeric(df.rows[r][i]).nan})

NumericCounts(df) == [i \in 1..Len(df.columns) |-> NumericCount(df, i)]

\* the columns _best_numeric_column visits
Candidates(df, excluded) == {i \in 1..Len(df.columns) : df.columns[i] \notin excluded}

\* the first candidate with the highest score (score > best_score is strict)
BestOf(cand, counts) ==
    CHOOSE i \in cand :
        \A j \in cand : counts[j] < counts[i] \/ (counts[j] = counts[i] /\ i <= j)

\* if best_score < 0.3: return None
PickBest(df, counts, best) ==
    IF 10 * counts[best] < 3 * Len(df.rows) THEN None ELSE Some(df.columns[best])

BestAmong(df, cand, counts) ==
    IF cand = {} THEN None ELSE PickBest(df, counts, BestOf(cand, counts))

\* _best_numeric_column
BestNumericColumn(df, excluded) ==
    BestAmong(df, Candidates(df, excluded), NumericCounts(df))

(***************************************************************************)
(* _normalize_statement                                                    *)
(***************************************************************************)
TypeCreditPatterns == <<<<"c","r">>, <<"c","r","e","d","i","t">>, <<"d","e","p">>, <<"s","a","l","a","r","y">>, <<"r","e","f","u","n","d">>>>

TypeDebitPatterns == <<<<"d","r">>, <<"d","e","b","i","t">>, <<"w","i","t","h">>, <<"p","a","y">>, <<"p","u","r","c","h","a","s","e">>>>

DescCreditPatterns == <<<<"c","r","e","d","i","t">>, <<"s","a","l","a","r","y">>, <<"d","e","p","o","s","i","t">>, <<"r","e","f","u","n","d">>, <<"r","e","c","e","i","v","e","d">>>>

DescDebitPatterns == <<<<"d","e","b","i","t">>, <<"w","i","t","h","d","r","a","w">>, <<"p","a","y","m","e","n","t">>, <<"p","u","r","c","h","a","s","e">>, <<"s","p","e","n","t">>>>

\* work.columns = [str(c).strip() for c in work.columns]
WorkFrame(df) == Frame([i \in 1..Len(df.columns) |-> Strip(df.columns[i])], df.rows)

\* the truthy labels among balance_col and date_col
ExcludedOf(balance, date) == {c[1] : c \in {o \in {balance, date} : Truthy(o)}}

\* the roles given the seven keyword searches; named_col is amount_col
\* before the best-numeric search
RolesOf(work, date, balance, type, description, debit, credit, named) ==
    [date_col |-> date,
     balance_col |-> balance,
     type_col |-> type,
     description_col |-> description,
     debit_col |-> debit,
     credit_col |-> credit,
     dual |-> Truthy(debit) /\ Truthy(credit),
     named_col |-> named,
     amount_col |->
         IF (Truthy(debit) /\ Truthy(credit)) \/ named # None THEN named
         ELSE BestNumericColumn(work, ExcludedOf(balance, date))]

\* the resolved roles of a frame
Roles(work) ==
    RolesOf(work,
            FindColumn(work.columns, DateKeywords),
            FindColumn(work.columns, BalanceKeywords),
            FindColumn(work.columns, TypeKeywords),
            FindColumn(work.columns, DescriptionKeywords),
            FindColumn(work.columns, DebitKeywords),
            FindColumn(work.columns, CreditKeywords),
            FindColumn(work.columns, AmountKeywords))

\* fillna(0).abs() of a coerced cell
FillAbs(x) == IF x.nan THEN 0 ELSE Abs(x.v)

\* DualAmount with the debit value taking precedence
DualAmountDebitFirst(debit, credit) == IF debit > 0 THEN debit ELSE credit

\* amount of a row with separate debit and credit columns
DualAmount(debit, credit) == IF credit > 0 THEN credit ELSE debit

\* DualType with the debit value taking precedence
DualTypeDebitFirst(debit, credit) == IF debit > 0 THEN "debit" ELSE "credit"

\* type of a row with separate debit and credit columns
DualType(debit, credit) ==
    IF credit > 0 THEN "credit" ELSE IF debit > 0 THEN "debit" ELSE "debit"

\* SingleAmount without .abs()
SingleAmountSigned(x) == x

\* amount.abs() of a row without separate debit and credit columns
SingleAmount(x) == IF x.nan THEN NaN ELSE Num(Abs(x.v))

\* np.where(contains(credit patterns), "credit", np.where(..., "debit", "debit"))
TypeFromTypeText(type_values) ==
    IF ContainsAny(type_values, TypeCreditPatterns) THEN "credit"
    ELSE IF ContainsAny(type_values, TypeDebitPatterns) THEN "debit"
    ELSE "debit"

\* type from the type column's value
TypeFromTypeValue(cell) == TypeFromTypeText(Lower(Strip(AsStr(cell))))

TypeFromDescText(desc) ==
    IF ContainsAny(desc, DescCreditPatterns) THEN "credit"
    ELSE IF ContainsAny(desc, DescDebitPatterns) THEN "debit"
    ELSE "debit"

\* type from the description text
TypeFromDescription(cell) == TypeFromDescText(Lower(AsStr(cell)))

\* TypeFromSign testing the sign after the absolute value is taken
TypeFromSignOfAbs(x) == "credit"

\* type from the sign of the raw amount (NaN < 0 is false)
TypeFromSign(x) == IF ~x.nan /\ x.v < 0 THEN "debit" ELSE "credit"

\* _to_numeric of the cell of a row under a label
CellNum(work, row, opt) == ToNumeric(CellAt(work.columns, row, opt))

\* normalized["balance"]
BalanceOf(work, roles, row) ==
    IF Truthy(roles.balance_col) THEN CellNum(work, row, roles.balance_col) ELSE NaN

\* normalized["description"]
DescriptionOf(work, roles, row) ==
    IF Truthy(roles.description_col)
    THEN Strip(AsStr(CellAt(work.columns, row, roles.description_col)))
    ELSE << >>

\* amount = _to_numeric(work[amount_col]) if amount_col else NaN
RawAmount(work, roles, row) ==
    IF Truthy(roles.amount_col) THEN CellNum(work, row, roles.amount_col) ELSE NaN

\* normalized["type"] without separate debit and credit columns
SingleType(work, roles, row, amount) ==
    IF Truthy(roles.type_col)
    THEN TypeFromTypeValue(CellAt(work.columns, row, roles.type_col))
    ELSE IF Truthy(roles.description_col)
    THEN TypeFromDescription(CellAt(work.columns, row, roles.description_col))
    ELSE TypeFromSign(amount)

Canonical(amount, type, balance, description) ==
    [amount |-> amount, type |-> type, balance |-> balance, description |-> description]

\* a row when debit_col and credit_col are both resolved
DualRow(debit, credit, balance, description) ==
    Canonical(Num(DualAmount(debit, credit)), DualType(debit, credit), balance, description)

\* a row otherwise
SingleRow(work, roles, row, amount, balance, description) ==
    Canonical(SingleAmount(amount), SingleType(work, roles, row, amount), balance,
              description)

\* the normalised row of one raw row, before rows without amount are dropped
NormalizeRow(work, roles, row) ==
    IF roles.dual
    THEN DualRow(FillAbs(CellNum(work, row, roles.debit_col)),
                 FillAbs(CellNum(work, row, roles.credit_col)),
                 BalanceOf(work, roles, row), DescriptionOf(work, roles, row))
    ELSE SingleRow(work, roles, row, RawAmount(work, roles, row),
                   BalanceOf(work, roles, row), DescriptionOf(work, roles, row))

\* the labels whose column the normaliser reads as a Series
SeriesReads(work, roles) ==
    {o[1] : o \in {c \in {roles.date_col, roles.balance_col, roles.description_col} :
                      Truthy(c)}}
    \cup (IF roles.dual THEN {roles.debit_col[1], roles.credit_col[1]}
          ELSE (IF Truthy(roles.amount_col) THEN {roles.amount_col[1]} ELSE {})
               \cup (IF Truthy(roles.type_col) THEN {roles.type_col[1]} ELSE {})
               \cup (IF roles.named_col = None
                     THEN {work.columns[i] :
                              i \in Candidates(work,
                                       ExcludedOf(roles.balance_col, roles.date_col))}
                     ELSE {}))

\* df[col] is a DataFrame, not a Series, when the label occurs more than
\* once; the Series-only calls that follow (.str, to_datetime) then raise
NormalizeRaises(work, roles) ==
    \E col \in SeriesReads(work, roles) : Cardinality(Positions(work.columns, col)) > 1

NotNaAmount(r) == ~r.amount.nan

\* normalized.dropna(subset=["amount"])
DropNaAmount(rows) == SelectSeq(rows, NotNaAmount)

\* the dictionary of detected columns returned with the rows
Detected(roles) ==
    [date_col |-> roles.date_col,
     amount_col |-> IF ~roles.dual THEN roles.amount_col ELSE None,
     debit_col |-> roles.debit_col,
     credit_col |-> roles.credit_col,
     type_col |-> roles.type_col,
     balance_col |-> roles.balance_col,
     description_col |-> roles.description_col]

NormalizeWith(work, roles) ==
    IF NormalizeRaises(work, roles)
    THEN [raised |-> TRUE, rows |-> << >>, detected |-> Detected(roles)]
    ELSE [raised |-> FALSE,
          rows |-> DropNaAmount([r \in 1..Len(work.rows) |->
                                    NormalizeRow(work, roles, work.rows[r])]),
          detected |-> Detected(roles)]

NormalizeWork(work) == NormalizeWith(work, Roles(work))

\* _normalize_statement: raised, or the canonical rows and the detected roles
NormalizeStatement(df) == NormalizeWork(WorkFrame(df))

(***************************************************************************)
(* Aggregate summary (analyze_bank_statement, second half)                 *)
(***************************************************************************)
RECURSIVE Sum(_)
Sum(xs) == IF xs = << >> THEN 0 ELSE Head(xs) + Sum(Tail(xs))

\* sum of (xs[i] - xs[j])^2 over the pairs i < j
RECURSIVE PairSquares(_)
PairSquares(xs) ==
    IF Len(xs) < 2 THEN 0
    ELSE LET h == Head(xs)
             t == Tail(xs)
         IN  Sum([i \in 1..Len(t) |-> (h - t[i]) * (h - t[i])]) + PairSquares(t)

RECURSIVE Isqrt(_)

IsqrtStep(n, s) == IF (s + 1) <= n \div (s + 1) THEN s + 1 ELSE s

\* floor of the square root
Isqrt(n) == IF n < 2 THEN n ELSE IsqrtStep(n, 2 * Isqrt(n \div 4))

Sqrt200Of(d, s) == IF s * s = d THEN 200 * s ELSE Isqrt(4 * 10000 * d)

\* floor of 200 * sqrt(d)
Sqrt200(d) == Sqrt200Of(d, Isqrt(d))

\* quotient q and remainder r rounded to the nearest integer, ties to even
RoundQR(q, r, n) ==
    IF 2 * r < n THEN q
    ELSE IF 2 * r > n THEN q + 1
    ELSE IF q % 2 = 0 THEN q ELSE q + 1

RoundQ(a, n, q) == RoundQR(q, a - q * n, n)

\* a / n rounded to the nearest integer, ties to even (n > 0)
RoundDiv(a, n) == RoundQ(a, n, a \div n)

IsCredit(r) == r.type = "credit"

IsDebit(r) == r.type = "debit"

HasBalance(r) == ~r.balance.nan

AbsAmounts(sel) == [i \in 1..Len(sel) |-> Abs(sel[i].amount.v)]

Balances(sel) == [i \in 1..Len(sel) |-> sel[i].balance.v]

\* df[df["type"] == "credit"]["amount"].abs()
CreditAmounts(rows) == AbsAmounts(SelectSeq(rows, IsCredit))

\* df[df["type"] == "debit"]["amount"].abs()
DebitAmounts(rows) == AbsAmounts(SelectSeq(rows, IsDebit))

\* df["balance"].dropna()
PresentBalances(rows) == Balances(SelectSeq(rows, HasBalance))

MeanOf(b) == IF b = << >> THEN 0 ELSE RoundDiv(Sum(b), Len(b))

\* round(mean, 2) of the present balances, in hundredths
AvgBalance(rows) == MeanOf(PresentBalances(rows))

\* Volatility as the sample standard deviation (ddof=1)
VolatilitySample(credit) ==
    LET n == Len(credit)
    IN  IF n > 1 THEN Isqrt((10000 * PairSquares(credit)) \div (n * (n - 1))) ELSE 0

\* round(credit.std(ddof=0), 4) in ten-thousandths.  The population standard
\* deviation of n values is sqrt(sum over pairs of (x_i - x_j)^2) / n; with x
\* in hundredths the result is 100 times that, rounded to the nearest integer
Volatility(credit) ==
    LET n == Len(credit)
    IN  IF n > 1 THEN (Sqrt200(PairSquares(credit)) + n) \div (2 * n) ELSE 0

UpiMarkers == <<<<"u","p","i">>, <<"g","p","a","y">>, <<"p","h","o","n","e","p","e">>, <<"p","a","y","t","m">>, <<"b","h","i","m">>>>

\* upi_frequency
UpiFrequency(rows, roles) ==
    IF roles.description_col # None
    THEN Cardinality({i \in 1..Len(rows) :
                         ContainsAny(Lower(rows[i].description), UpiMarkers)})
    ELSE Cardinality({i \in 1..Len(rows) : rows[i].type = "debit"})

\* ZeroSummary with a sentinel in place of the zero balance
ZeroSummaryUnknownBalance ==
    [monthly_income_estimate |-> 0,
     monthly_expense_estimate |-> 0,
     avg_monthly_balance |-> -1,
     income_volatility_index |-> 0,
     upi_transaction_frequency |-> 0]

\* the record returned for an empty table or an empty normalised table
ZeroSummary ==
    [monthly_income_estimate |-> 0,
     monthly_expense_estimate |-> 0,
     avg_monthly_balance |-> 0,
     income_volatility_index |-> 0,
     upi_transaction_frequency |-> 0]

SummaryOf(rows, roles, credit, debit) ==
    [monthly_income_estimate |-> IF credit # << >> THEN Sum(credit) ELSE 0,
     monthly_expense_estimate |-> IF debit # << >> THEN Sum(debit) ELSE 0,
     avg_monthly_balance |-> AvgBalance(rows),
     income_volatility_index |-> Volatility(credit),
     upi_transaction_frequency |-> UpiFrequency(rows, roles)]

\* the record returned for a non-empty normalised table
Summary(rows, roles) == SummaryOf(rows, roles, CreditAmounts(rows), DebitAmounts(rows))

(***************************************************************************)
(* Loader chain (_load_statement_dataframe)                                *)
(***************************************************************************)
\* what a strategy call produces: an exception, a value that is no
\* DataFrame (None, a Series), or a DataFrame
Raised == [k |-> "raise", df |-> EmptyFrame]

NotFrame == [k |-> "notframe", df |-> EmptyFrame]

Produced(df) == [k |-> "frame", df |-> df]

\* position of the last "." of s, 0 if none
LastDotPos(s) ==
    IF \E i \in 1..Len(s) : s[i] = "."
    THEN CHOOSE i \in 1..Len(s) : s[i] = "." /\ \A j \in (i + 1)..Len(s) : s[j] # "."
    ELSE 0

\* extension = filename.lower().rsplit(".", 1)[-1] if filename and "." in filename
Extension(fname) ==
    IF Truthy(fname) /\ LastDotPos(fname[1]) # 0
    THEN LET low == Lower(fname[1])
         IN  SubSeq(low, LastDotPos(low) + 1, Len(low))
    ELSE << >>

Loader(name, fn) == [name |-> name, fn |-> fn]

\* the extension-specific head of the loader list
ExtensionLoaders(extension) ==
    IF extension = <<"c","s","v">> THEN <<Loader("csv", "csv_auto")>>
    ELSE IF extension \in {<<"x","l","s","x">>, <<"x","l","s">>} THEN <<Loader("excel", "read_excel")>>
    ELSE IF extension \in {<<"t","s","v">>, <<"t","x","t">>} THEN <<Loader("text_csv", "csv_auto")>>
    ELSE IF extension = <<"j","s","o","n">> THEN <<Loader("json", "read_json")>>
    ELSE IF extension = <<"x","m","l">> THEN <<Loader("xml", "read_xml")>>
    ELSE IF extension = <<"p","d","f">> THEN <<Loader("pdf", "tables_from_pdf")>>
    ELSE IF extension \in {<<"d","o","c","x">>, <<"d","o","c">>} THEN <<Loader("docx", "tables_from_docx")>>
    ELSE << >>

\* FallbackLoaders with json tried before excel
FallbackLoadersJsonFirst ==
    <<Loader("csv", "csv_auto"), Loader("json", "read_json"),
      Loader("excel", "read_excel"), Loader("xml", "read_xml"),
      Loader("pdf", "tables_from_pdf"), Loader("docx", "tables_from_docx")>>

\* the generic fallback chain
FallbackLoaders ==
    <<Loader("csv", "csv_auto"), Loader("excel", "read_excel"),
      Loader("json", "read_json"), Loader("xml", "read_xml"),
      Loader("pdf", "tables_from_pdf"), Loader("docx", "tables_from_docx")>>

\* BuildLoaders with the fallback chain only for an unknown extension
BuildLoadersExtensionOnly(fname) ==
    IF ExtensionLoaders(Extension(fname)) # << >> THEN ExtensionLoaders(Extension(fname))
    ELSE FallbackLoaders

\* the loader list built for a filename
BuildLoaders(fname) == ExtensionLoaders(Extension(fname)) \o FallbackLoaders

\* the byte 0xFF, which no UTF-8 text holds
ByteFF == "xFF"

\* contents.decode("utf-8-sig") and contents.decode("utf-8") succeed
Utf8Decodes(lines) == \A l \in 1..Len(lines) : \A i \in 1..Len(lines[l]) : lines[l][i] # ByteFF

\* contents.decode("latin1") on one byte: 0xFF is U+00FF, an ASCII byte is itself
Latin1Char(b) == IF b = ByteFF THEN "U+00FF" ELSE b

\* _decode_bytes(contents), the bytes and the text given line by line: the
\* first of utf-8-sig, utf-8 and latin1 that decodes
DecodeBytes(lines) ==
    IF Utf8Decodes(lines) THEN lines
    ELSE [l \in 1..Len(lines) |-> [i \in 1..Len(lines[l]) |-> Latin1Char(lines[l][i])]]

\* a text frame if it is not empty, else None
FrameOrNone(text_df) == IF ~IsEmpty(text_df) THEN Produced(text_df) ELSE NotFrame

\* _tables_from_pdf(contents)[0] and _tables_from_docx(contents)[0]: the
\* parser library is missing, fails on the bytes, finds tables (given already
\* concatenated), or finds only text
TablesFromDocument(d) ==
    IF d.lib = "missing" THEN NotFrame
    ELSE IF d.lib = "raise" THEN Raised
    ELSE IF ~IsEmpty(d.tables) THEN Produced(d.tables)
    ELSE FrameOrNone(ExtractTextTransactions(d.text))

\* fn(): the outcome of one strategy on the document
Invoke(fn, doc) ==
    CASE fn = "csv_auto" -> doc.csv
      [] fn = "read_excel" -> doc.excel
      [] fn = "read_json" -> doc.json
      [] fn = "read_xml" -> doc.xml
      [] fn = "tables_from_pdf" -> TablesFromDocument(doc.pdf)
      [] fn = "tables_from_docx" -> TablesFromDocument(doc.docx)

\* candidate is not None and isinstance(candidate, pd.DataFrame) and not candidate.empty
Wins(outcome) == outcome.k = "frame" /\ ~IsEmpty(outcome.df)

(***************************************************************************)
(* Inputs: documents and filenames                                         *)
(***************************************************************************)
\* largest number of rows of a generated table
MaxRows == 2

\* largest number of lines of a generated text
MaxLines == 2

\* all sequences over S of length 1..n
SeqsUpTo(S, n) == UNION {[1..k -> S] : k \in 1..n}

\* a row of text cells
Cells(texts) == [i \in 1..Len(texts) |-> StrCell(texts[i])]

\* the statement of the smoke test and of the spec's scenario
ScenarioTable ==
    Frame(<<<<"T","x","n"," ","D","a","t","e">>, <<"N","a","r","r","a","t","i","o","n">>, <<"C","R"," ","A","m","t">>, <<"D","R"," ","A","m","t">>, <<"R","u","n","n","i","n","g"," ","B","a","l">>>>,
          << Cells(<<<<"2","0","2","6","-","0","2","-","0","1">>, <<"S","a","l","a","r","y"," ","c","r","e","d","i","t">>, <<"4","5","0","0","0">>, <<"0">>, <<"5","2","0","0","0">>>>),
             Cells(<<<<"2","0","2","6","-","0","2","-","0","2">>, <<"U","P","I"," ","g","r","o","c","e","r","y"," ","p","a","y","m","e","n","t">>, <<"0">>, <<"1","2","0","0">>, <<"5","0","8","0","0">>>>),
             Cells(<<<<"2","0","2","6","-","0","2","-","0","3">>, <<"U","P","I"," ","f","u","e","l"," ","p","a","y","m","e","n","t">>, <<"0">>, <<"8","0","0">>, <<"5","0","0","0","0">>>>) >>)

\* headers that differ only in surrounding blanks
BlankPaddedTables ==
    {Frame(<<<<"D","e","b","i","t"," ">>, <<"D","e","b","i","t">>, <<"C","r","e","d","i","t">>>>, <<Cells(<<<<"0",".","5">>, <<"0",".","5">>, <<"0">>>>)>>),
     Frame(<<<<"V","a","l","u","e"," ">>, <<"V","a","l","u","e">>>>, <<Cells(<<<<"0",".","5">>, <<"0",".","2">>>>)>>),
     Frame(<<<<"A","m","o","u","n","t">>, <<"X"," ">>, <<"X">>>>, <<Cells(<<<<"0",".","5">>, <<"a">>, <<"b">>>>)>>),
     Frame(<<<<"A","m","o","u","n","t">>, <<"B","a","l","a","n","c","e">>, <<" ","B","a","l","a","n","c","e">>>>, <<Cells(<<<<"0",".","5">>, <<"1">>, <<"2">>>>)>>)}

\* an amount column beside a type column under each of the type headers
TypedShapes ==
    {[columns |-> <<<<"A","m","o","u","n","t">>, h>>,
      rowset |-> {Cells(<<<<"0",".","5">>, <<"C","R">>>>), Cells(<<<<"-","0",".","5">>, <<"D","r">>>>),
                  Cells(<<<<"a","b","c">>, <<"c","r","e","d","i","t">>>>), Cells(<<<<"0",".","2">>, <<"o","t","h","e","r">>>>),
                  <<NaNCell, StrCell(<<"D","R">>)>>}] :
        h \in {<<"T","y","p","e">>, <<"D","r","/","C","r">>, <<"D","e","b","i","t","/","C","r","e","d","i","t">>, <<"T","r","a","n","s"," ","T","y","p","e">>}}

\* header rows and the rows a table under them is drawn from; NaNCell is a
\* field left blank in the file
TableShapes ==
    TypedShapes \cup
    {[columns |-> <<<<"D","e","b","i","t">>, <<"C","r","e","d","i","t">>, <<"N","a","r","r","a","t","i","o","n">>, <<"B","a","l">>>>,
      rowset |-> {Cells(<<<<"0",".","5">>, <<"0">>, <<"U","P","I"," ","s","h","o","p">>, <<"1">>>>),
                  Cells(<<<<"0">>, <<"0",".","3">>, <<"s","a","l","a","r","y">>, <<"0",".","9">>>>),
                  Cells(<<<<"0",".","5">>, <<"0",".","3">>, <<"b","o","t","h"," ","s","i","d","e","s">>, <<"1">>>>),
                  <<StrCell(<<"-","0",".","2">>), NaNCell, StrCell(<<"r","e","v","e","r","s","a","l">>), StrCell(<<"-","0",".","1">>)>>,
                  Cells(<<<<"0">>, <<"-","0",".","4">>, <<"G","P","a","y"," ","r","e","f","u","n","d">>, <<"0",".","2">>>>),
                  <<NaNCell, NaNCell, StrCell(<<"u","p","i"," ","o","p","e","n","i","n","g"," ","b","a","l","a","n","c","e">>), StrCell(<<"0",".","7">>)>>,
                  Cells(<<<<"x">>, <<"-">>, <<"j","u","n","k">>, <<"n","i","l">>>>)}],
     [columns |-> <<<<"W","i","t","h","d","r","a","w","a","l">>, <<"D","e","p","o","s","i","t">>>>,
      rowset |-> {<<StrCell(<<"0",".","5">>), NaNCell>>, <<NaNCell, StrCell(<<"0",".","3">>)>>,
                  <<NaNCell, NaNCell>>, Cells(<<<<"0",".","1">>, <<"0",".","6">>>>)}],
     [columns |-> <<<<"T","x","n"," ","A","m","o","u","n","t">>, <<"R","e","m","a","r","k","s">>>>,
      rowset |-> {Cells(<<<<"0",".","5">>, <<"s","a","l","a","r","y"," ","r","e","c","e","i","v","e","d">>>>), Cells(<<<<"0",".","2">>, <<"U","P","I"," ","p","a","y","m","e","n","t">>>>),
                  Cells(<<<<"-","0",".","3">>, <<"m","i","s","c">>>>), Cells(<<<<"n","i","l">>, <<"P","a","y","t","m"," ","r","e","f","u","n","d">>>>)}],
     [columns |-> <<<<"R","e","f">>, <<"W","i","t","h","d","r","a","w","a","l">>>>,
      rowset |-> {Cells(<<<<"7">>, <<"0",".","5">>>>), Cells(<<<<"8">>, <<"n","i","l">>>>)}],
     [columns |-> <<<<"V","a","l","u","e">>>>,
      rowset |-> {Cells(<<<<"0",".","5">>>>), Cells(<<<<"-","0",".","2">>>>), Cells(<<<<"a","b","c">>>>), <<NaNCell>>}],
     [columns |-> <<<<"I","n","f","o">>, <<"V","a","l","u","e">>, <<"B","a","l","a","n","c","e">>>>,
      rowset |-> {Cells(<<<<"a","b","c">>, <<"0",".","5">>, <<"1">>>>), Cells(<<<<"x","y","z">>, <<"-","0",".","2">>, <<"0",".","8">>>>),
                  Cells(<<<<"a","b","c">>, <<"n","i","l">>, <<"0",".","8">>>>)}],
     [columns |-> <<<<"D","a","t","e">>, <<"D","e","s","c","r","i","p","t","i","o","n">>, <<"D","e","b","i","t">>, <<"B","a","l","a","n","c","e">>>>,
      rowset |-> {Cells(<<<<"2","0","2","6","-","0","2","-","0","1">>, <<"U","P","I"," ","2"," ","g","o">>, <<"0",".","5">>, <<"1">>>>),
                  Cells(<<<<"2","0","2","6","-","0","2","-","0","2">>, <<"s","a","l","a","r","y">>, <<"0">>, <<"1",".","5">>>>),
                  Cells(<<<<"0","3","/","0","2","/","2","0","2","6">>, <<"r","e","f"," ","1",".","5">>, <<"0",".","4">>, <<"0",".","6">>>>)}]}

\* the tables of up to MaxRows rows of a shape
TablesOver(shape) == {Frame(shape.columns, rows) : rows \in SeqsUpTo(shape.rowset, MaxRows)}

\* a header with a late keyword of a role standing before a header with an
\* earlier keyword of the same role
KeywordOrderTables ==
    {Frame(<<<<"A","v","a","i","l"," ","B","a","l">>, <<"C","l","o","s","i","n","g"," ","B","a","l","a","n","c","e">>, <<"A","m","t">>>>, <<Cells(<<<<"0",".","9">>, <<"1",".","4">>, <<"0",".","5">>>>)>>),
     Frame(<<<<"N","o","t","e","s">>, <<"T","x","n"," ","R","e","m","a","r","k","s">>, <<"A","m","t">>, <<"A","m","o","u","n","t">>>>,
           <<Cells(<<<<"u","p","i">>, <<"s","a","l","a","r","y">>, <<"0",".","1">>, <<"0",".","6">>>>)>>)}

RichTables ==
    {ScenarioTable} \cup BlankPaddedTables \cup KeywordOrderTables
        \cup UNION {TablesOver(sh) : sh \in TableShapes}

\* the one-row table a strategy yields in the chain documents; the value
\* tells the strategies apart
StrategyTable(digit) == Frame(<<<<"A","m","o","u","n","t">>>>, <<Cells(<<digit>>)>>)

HeaderOnly == Frame(<<<<"A","m","o","u","n","t">>>>, << >>)

\* what a pandas reader does with bytes that are not a usable table
Misses == {Raised, Produced(HeaderOnly)}

\* a PDF or word-processor document as its parser sees it
DocumentPart(lib, tables, text) == [lib |-> lib, tables |-> tables, text |-> text]

NoParser == DocumentPart("missing", EmptyFrame, << >>)

PdfParts ==
    {NoParser,
     DocumentPart("raise", EmptyFrame, << >>),
     DocumentPart("ok", StrategyTable(<<"5">>), <<<<"p","d","f"," ","p","a","y","m","e","n","t"," ","7",".","0","0">>>>),
     DocumentPart("ok", EmptyFrame, <<<<"p","d","f"," ","p","a","y","m","e","n","t"," ","7",".","0","0">>>>)}

DocxParts ==
    {NoParser,
     DocumentPart("ok", StrategyTable(<<"6">>), << >>),
     DocumentPart("ok", EmptyFrame, <<<<"d","o","c","x"," ","p","a","y","m","e","n","t"," ","8",".","0","0">>>>),
     DocumentPart("ok", EmptyFrame, <<<<"p","a","g","e"," ","w","i","t","h","o","u","t"," ","f","i","g","u","r","e","s">>>>)}

Document(csv, excel, json, xml, pdf, docx, text) ==
    [csv |-> csv, excel |-> excel, json |-> json, xml |-> xml, pdf |-> pdf,
     docx |-> docx, text |-> text]

TextLines ==
    {<<"U","P","I"," ","p","a","y","m","e","n","t"," ","0",".","5","0">>, <<"r","e","f","u","n","d"," ","0",".","2","0"," ","b","a","l"," ","1",".","0","0">>, <<"n","o"," ","n","u","m","b","e","r","s"," ","h","e","r","e">>, <<"a","b"," ","1">>,
     <<" "," ","-","0",".","7"," ","s","p","e","n","t"," "," ">>}

ScenarioLine == <<"2","0","2","6","-","0","2","-","0","1"," ","S","a","l","a","r","y"," ","c","r","e","d","i","t"," ","4","5","0","0","0",".","0","0">>

\* documents that exercise the loader chain: every combination of outcomes
ChainDocs ==
    {Document(c, e, j, x, p, d, t) :
        c \in Misses \cup {Produced(StrategyTable(<<"1">>))},
        e \in {Raised, Produced(StrategyTable(<<"2">>))},
        j \in {NotFrame, Raised, Produced(StrategyTable(<<"3">>))},
        x \in {Produced(HeaderOnly), Produced(StrategyTable(<<"4">>))},
        p \in PdfParts, d \in DocxParts,
        t \in {<<<<"U","P","I"," ","p","a","y","m","e","n","t"," ","9",".","0","0">>>>, <<<<"n","o","t","h","i","n","g"," ","t","o"," ","s","e","e">>>>, <<ScenarioLine>>}}

\* delimited files that parse to one of the rich tables
TableDocs ==
    {Document(Produced(t), Raised, Raised, Raised, NoParser, NoParser, << >>) :
        t \in RichTables}

\* free text that no structured strategy reads
TextDocs ==
    {Document(Raised, Raised, Raised, Raised, NoParser, NoParser, DecodeBytes(t)) :
        t \in {<<ScenarioLine>>, <<ScenarioLine, <<"U","P","I"," ","p","a","y","m","e","n","t"," ","0",".","5","0">>>>,
                <<<<" "," ","-","0",".","7"," ","s","p","e","n","t"," "," ">>, ScenarioLine>>, <<<<"f","e","e"," ","0",".","3","0"," ","o","d"," ","-","0",".","1","0">>>>,
                <<<<"0","3","/","0","2","/","2","0","2","6"," ","U","P","I"," ","f","u","e","l"," ","0",".","8","0">>>>,
                <<<<"p","a","i","d"," ","2","0","2","6","-","0","2","-","0","1">>, <<"a","b"," ","1">>, <<" "," ","U","P","I"," ","0",".","5","0"," ","b","a","l"," ","1",".","0","0"," ">>>>}
               \cup SeqsUpTo(TextLines, MaxLines)}

\* lines of bytes that are not UTF-8: each holds the byte 0xFF
GarbageLines ==
    {<<ByteFF, ByteFF, ByteFF, ByteFF, ByteFF, ByteFF>>,
     <<ByteFF, "7", ByteFF, "3", ",", ByteFF>>,
     <<ByteFF, "1">>,
     <<"9", ";", ByteFF, ByteFF, ByteFF>>}

\* binary garbage: every reader and parser fails on the bytes
GarbageDocs ==
    {Document(Raised, Raised, Raised, Raised, p, d, DecodeBytes(b)) :
        p \in {NoParser, DocumentPart("raise", EmptyFrame, << >>)},
        d \in {NoParser, DocumentPart("raise", EmptyFrame, << >>)},
        b \in SeqsUpTo(GarbageLines, MaxLines)}

\* a delimited file whose table has no usable amount, beside an XML reading
\* and free text that both hold a transaction
CommittedDocs ==
    {Document(Produced(Frame(<<<<"A","m","o","u","n","t">>>>, <<Cells(<<<<"a","b","c">>>>)>>)), Raised, Raised,
              Produced(StrategyTable(<<"4">>)), NoParser, NoParser, <<<<"U","P","I"," ","p","a","y","m","e","n","t"," ","9",".","0","0">>>>)}

Filenames ==
    {None, Some(<< >>), Some(<<"s","t","a","t","e","m","e","n","t">>), Some(<<"s",".","C","S","V">>), Some(<<"s",".","x","l","s","x">>),
     Some(<<"s",".","t","x","t">>), Some(<<"s",".","j","s","o","n">>), Some(<<"s",".","x","m","l">>), Some(<<"s",".","P","d","f">>),
     Some(<<"s",".","d","o","c">>), Some(<<"s",".","c","s","v",".","b","i","n">>)}

Inputs ==
    (ChainDocs \X Filenames)
    \cup (TableDocs \X {None, Some(<<"s",".","C","S","V">>), Some(<<"s",".","j","s","o","n">>)})
    \cup (CommittedDocs \X {None, Some(<<"s",".","C","S","V">>)})
    \cup (TextDocs \X {None, Some(<<"s",".","t","x","t">>)})
    \cup (GarbageDocs \X {None, Some(<<"s",".","P","d","f">>), Some(<<"s",".","c","s","v",".","b","i","n">>)})

\* the other services at rest: no ledger entry, the lock free, no call
IdleServices ==
    /\ storage = << >>
    /\ lock = None
    /\ adds = << >>
    /\ risk = None
    /\ loans = None

(***************************************************************************)
(* analyze_bank_statement as a state machine                               *)
(***************************************************************************)
\* detected before _normalize_statement has returned
NoneDetected ==
    [date_col |-> None, amount_col |-> None, debit_col |-> None, credit_col |-> None,
     type_col |-> None, balance_col |-> None, description_col |-> None]

Init ==
    /\ \E in \in Inputs : contents = in[1] /\ filename = in[2]
    /\ pc = "start"
    /\ loaders = << >>
    /\ li = 0
    /\ called = << >>
    /\ raw = EmptyFrame
    /\ tag = ""
    /\ canon = << >>
    /\ detected = NoneDetected
    /\ result = None
    /\ parked = EmptyBag
    /\ IdleServices

\* _load_statement_dataframe, lines 445-481: the loader list is built
Start ==
    /\ pc = "start"
    /\ loaders' = BuildLoaders(filename)
    /\ li' = 1
    /\ pc' = "chain"
    /\ UNCHANGED <<contents, filename, called, raw, tag, canon, detected, result>>
    /\ UNCHANGED <<parked, otherServices>>

\* one entry of the call log
Call(name, fn, outcome) == [name |-> name, fn |-> fn, outcome |-> outcome.k, won |-> Wins(outcome)]

\* TryLoader without the except clause: a strategy's exception leaves the loader
TryLoaderUncaught(loader, outcome, won) ==
    /\ Wins(outcome) = won
    /\ called' = Append(called, Call(loader.name, loader.fn, outcome))
    /\ IF won THEN raw' = outcome.df /\ tag' = loader.name /\ pc' = "loaded" /\ li' = li
       ELSE IF outcome.k = "raise" THEN pc' = "raised" /\ UNCHANGED <<raw, tag, li>>
       ELSE li' = li + 1 /\ UNCHANGED <<raw, tag, pc>>

\* the loop body for a strategy and its outcome
TryLoader(loader, outcome, won) ==
    /\ Wins(outcome) = won
    /\ called' = Append(called, Call(loader.name, loader.fn, outcome))
    /\ IF won THEN raw' = outcome.df /\ tag' = loader.name /\ pc' = "loaded" /\ li' = li
       ELSE li' = li + 1 /\ UNCHANGED <<raw, tag, pc>>

\* the candidate is a non-empty DataFrame: return it with the loader's name
LoaderHit ==
    /\ pc = "chain"
    /\ li <= Len(loaders)
    /\ TryLoader(loaders[li], Invoke(loaders[li].fn, contents), TRUE)
    /\ UNCHANGED <<contents, filename, loaders, canon, detected, result>>
    /\ UNCHANGED <<parked, otherServices>>

\* the strategy raises or yields nothing usable: continue with the next
LoaderMiss ==
    /\ pc = "chain"
    /\ li <= Len(loaders)
    /\ TryLoader(loaders[li], Invoke(loaders[li].fn, contents), FALSE)
    /\ UNCHANGED <<contents, filename, loaders, canon, detected, result>>
    /\ UNCHANGED <<parked, otherServices>>

\* ReturnText returning the text frame as "text_fallback" even when empty
ReturnTextUnchecked(text_df) ==
    /\ called' = Append(called, Call("text", "extract_text", Produced(text_df)))
    /\ raw' = text_df
    /\ tag' = "text_fallback"

\* lines 491-495 for the frame the text extractor built
ReturnText(text_df) ==
    /\ called' = Append(called, Call("text", "extract_text", Produced(text_df)))
    /\ raw' = text_df
    /\ tag' = IF ~IsEmpty(text_df) THEN "text_fallback" ELSE "unparsed"

\* after the loop: the decoded text goes to the text extractor
TextFallback ==
    /\ pc = "chain"
    /\ li > Len(loaders)
    /\ ReturnText(ExtractTextTransactions(contents.text))
    /\ pc' = "loaded"
    /\ UNCHANGED <<contents, filename, loaders, li, canon, detected, result>>
    /\ UNCHANGED <<parked, otherServices>>

\* analyze_bank_statement, lines 611-618
ReturnEmptyTable ==
    /\ pc = "loaded"
    /\ IsEmpty(raw)
    /\ result' = Some(ZeroSummary)
    /\ pc' = "done"
    /\ UNCHANGED <<contents, filename, loaders, li, called, raw, tag, canon, detected>>
    /\ UNCHANGED <<parked, otherServices>>

\* line 620 for the outcome n of _normalize_statement: nothing catches its
\* exception
Normalized(n) ==
    IF n.raised THEN pc' = "raised" /\ UNCHANGED <<canon, detected>>
    ELSE pc' = "normalized" /\ canon' = n.rows /\ detected' = n.detected

Normalize ==
    /\ pc = "loaded"
    /\ ~IsEmpty(raw)
    /\ Normalized(NormalizeStatement(raw))
    /\ UNCHANGED <<contents, filename, loaders, li, called, raw, tag, result>>
    /\ UNCHANGED <<parked, otherServices>>

\* lines 621-628 going back to the loader loop instead of returning
ReturnNoTransactionsRetry ==
    /\ pc = "normalized"
    /\ canon = << >>
    /\ li < Len(loaders)
    /\ li' = li + 1
    /\ pc' = "chain"
    /\ UNCHANGED <<contents, filename, loaders, called, raw, tag, canon, detected, result>>
    /\ UNCHANGED <<parked, otherServices>>

\* lines 621-628
ReturnNoTransactions ==
    /\ pc = "normalized"
    /\ canon = << >>
    /\ result' = Some(ZeroSummary)
    /\ pc' = "done"
    /\ UNCHANGED <<contents, filename, loaders, li, called, raw, tag, canon, detected>>
    /\ UNCHANGED <<parked, otherServices>>

\* lines 630-650
Summarize ==
    /\ pc = "normalized"
    /\ canon # << >>
    /\ result' = Some(Summary(canon, detected))
    /\ pc' = "done"
    /\ UNCHANGED <<contents, filename, loaders, li, called, raw, tag, canon, detected>>
    /\ UNCHANGED <<parked, otherServices>>

Next ==
    \/ Start
    \/ LoaderHit
    \/ LoaderMiss
    \/ TextFallback
    \/ ReturnEmptyTable
    \/ Normalize
    \/ ReturnNoTransactions
    \/ Summarize

Spec == Init /\ [][Next]_vars

(***************************************************************************)
(* Properties                                                              *)
(***************************************************************************)
\* the loader has returned
LoaderReturned == pc \in {"loaded", "normalized", "done", "raised"}

\* the strategies invoked so far, without the text extractor
StructuredCalls == SelectSeq(called, LAMBDA c : c.fn # "extract_text")

TextExtractorCalled == \E i \in 1..Len(called) : called[i].fn = "extract_text"

SummaryFields ==
    {"monthly_income_estimate", "monthly_expense_estimate", "avg_monthly_balance",
     "income_volatility_index", "upi_transaction_frequency"}

\* C1: analyze_bank_statement never raises, and every call that has
\* returned has returned a record with exactly the five summary fields; in
\* particular no failure of _normalize_statement reaches the caller.
C1_NeverRaises ==
    /\ pc # "raised"
    /\ pc = "done" => result # None /\ DOMAIN result[1] = SummaryFields

EndsWith(s, suffix) ==
    Len(s) >= Len(suffix) /\ SubSeq(s, Len(s) - Len(suffix) + 1, Len(s)) = suffix

\* the suffixes the loader knows and the extractor each one selects
SuffixTable ==
    << <<<<".","c","s","v">>, "csv_auto">>, <<<<".","x","l","s","x">>, "read_excel">>, <<<<".","x","l","s">>, "read_excel">>,
       <<<<".","t","s","v">>, "csv_auto">>, <<<<".","t","x","t">>, "csv_auto">>, <<<<".","j","s","o","n">>, "read_json">>,
       <<<<".","x","m","l">>, "read_xml">>, <<<<".","p","d","f">>, "tables_from_pdf">>,
       <<<<".","d","o","c","x">>, "tables_from_docx">>, <<<<".","d","o","c">>, "tables_from_docx">> >>

\* the extractors the claim expects, in order, for a filename
ExpectedOrder(fname) ==
    (IF Truthy(fname)
        /\ \E k \in 1..Len(SuffixTable) : EndsWith(Lower(fname[1]), SuffixTable[k][1])
     THEN <<SuffixTable[CHOOSE k \in 1..Len(SuffixTable) :
                            EndsWith(Lower(fname[1]), SuffixTable[k][1])][2]>>
     ELSE << >>)
    \o <<"csv_auto", "read_excel", "read_json", "read_xml", "tables_from_pdf",
         "tables_from_docx">>

FixedNames == <<"csv", "excel", "json", "xml", "pdf", "docx">>

\* C2: the strategies are invoked strictly in list order, the list being the
\* extractor selected by the case-insensitive filename suffix followed by
\* csv, excel, json, xml, pdf, docx; the table returned is that of the first
\* strategy whose result is a non-empty table, tagged with that strategy's
\* name, and no strategy is invoked after the winning one.
C2_StrictOrder ==
    /\ pc # "start" =>
          /\ [i \in 1..Len(loaders) |-> loaders[i].fn] = ExpectedOrder(filename)
          /\ SubSeq([i \in 1..Len(loaders) |-> loaders[i].name],
                    Len(loaders) - 5, Len(loaders)) = FixedNames
    /\ \A i \in 1..Len(StructuredCalls) :
          /\ StructuredCalls[i].fn = ExpectedOrder(filename)[i]
          /\ StructuredCalls[i].name = loaders[i].name
          /\ called[i] = StructuredCalls[i]
    /\ \A i \in 1..(Len(called) - 1) : ~Wins(Invoke(called[i].fn, contents))
    /\ (LoaderReturned /\ ~TextExtractorCalled) =>
          /\ Wins(Invoke(called[Len(called)].fn, contents))
          /\ raw = Invoke(called[Len(called)].fn, contents).df
          /\ tag = called[Len(called)].name

\* C2 witness: under a filename with a known suffix the suffix's strategy and
\* two more missed before the json strategy won
C2_Witness ==
    /\ pc = "loaded"
    /\ Len(loaders) = 7
    /\ Len(called) = 4
    /\ tag = "json"

\* C3: a strategy that raises, returns no DataFrame or returns an empty one
\* is a miss after which the chain goes on with the next strategy (or, after
\* the last, with the text extractor), and the loader never raises.
C3_MissesAdvance ==
    /\ \A i \in 1..Len(called) :
          (called[i].outcome \in {"raise", "notframe"} \/ ~called[i].won) =>
              \/ called[i].fn = "extract_text"
              \/ (i = Len(called) /\ pc = "chain" /\ li = i + 1)
              \/ (i < Len(called)
                  /\ called[i + 1].fn = IF i < Len(loaders) THEN loaders[i + 1].fn
                                        ELSE "extract_text")
    /\ pc = "raised" => tag # "" /\ ~IsEmpty(raw)

\* C3 witness: the loader has returned although one strategy raised, one
\* returned no DataFrame and one returned an empty DataFrame
C3_Witness ==
    /\ pc = "loaded"
    /\ \E i \in 1..Len(called) : called[i].outcome = "raise"
    /\ \E i \in 1..Len(called) : called[i].outcome = "notframe"
    /\ \E i \in 1..Len(called) : called[i].outcome = "frame" /\ ~called[i].won
                                  /\ called[i].fn # "extract_text"

\* every structured strategy of the list misses on the document
AllStructuredMiss ==
    \A i \in 1..Len(loaders) : ~Wins(Invoke(loaders[i].fn, contents))

\* C4: the decoded text is passed to the text extractor if and only if every
\* structured strategy misses; a non-empty extraction is returned tagged
\* "text_fallback", an empty one gives an empty table tagged "unparsed".
C4_TextFallback ==
    /\ pc = "chain" => ~TextExtractorCalled
    /\ LoaderReturned =>
          /\ TextExtractorCalled <=> AllStructuredMiss
          /\ TextExtractorCalled =>
                /\ raw = ExtractTextTransactions(contents.text)
                /\ ~IsEmpty(raw) => tag = "text_fallback"
                /\ IsEmpty(raw) => tag = "unparsed" /\ raw = EmptyFrame
          /\ ~TextExtractorCalled => tag \notin {"text_fallback", "unparsed"}

\* C4 witness: every structured strategy missed and the text gave rows
C4_Witness ==
    /\ pc = "loaded"
    /\ tag = "text_fallback"
    /\ Len(called) = Len(loaders) + 1
    /\ ~IsEmpty(raw)

\* whether the loader returns a non-empty table for a document and filename
LoadsNonEmpty(doc, fname) ==
    \/ \E i \in 1..Len(BuildLoaders(fname)) : Wins(Invoke(BuildLoaders(fname)[i].fn, doc))
    \/ ~IsEmpty(ExtractTextTransactions(doc.text))

FixedFns == {FallbackLoaders[i].fn : i \in 1..Len(FallbackLoaders)}

\* C5: the filename only biases the order: when no strategy wins, every
\* strategy of the fixed sequence has been attempted, and the table returned
\* under the given filename is non-empty if and only if the table returned
\* under any other filename is.
C5_FilenameOnlyBiases ==
    pc = "loaded" =>
        /\ TextExtractorCalled => FixedFns \subseteq {called[i].fn : i \in 1..Len(called)}
        /\ \A other \in Filenames : ~IsEmpty(raw) <=> LoadsNonEmpty(contents, other)

\* C5 witness: under a wrong extension the suffix's strategy missed and the
\* table came from a strategy of the fixed sequence
C5_Witness ==
    /\ pc = "loaded"
    /\ Extension(filename) = <<"j","s","o","n">>
    /\ tag = "csv"
    /\ ~Wins(contents.json)

\* the cells of the rows of a frame under a resolved label, coerced
ColumnNums(work, opt) ==
    [r \in 1..Len(work.rows) |-> ToNumeric(CellAt(work.columns, work.rows[r], opt))]

\* a coerced cell as a summand: a missing or non-numeric cell adds nothing
Summand(x) == IF x.nan THEN 0 ELSE x.v

\* the summary was computed from a table with resolved debit and credit columns
DualResolved == Truthy(detected.debit_col) /\ Truthy(detected.credit_col)

DualSummary == pc = "done" /\ ~IsEmpty(raw) /\ DualResolved

SumOfColumn(nums) == Sum([r \in 1..Len(nums) |-> Summand(nums[r])])

SumOfAbsColumn(nums) == Sum([r \in 1..Len(nums) |-> Abs(Summand(nums[r]))])

\* sum of |debit| over the rows whose credit cell is zero, missing or not a number
SumOfUncreditedDebits(debits, credits) ==
    Sum([r \in 1..Len(debits) |->
            IF Summand(credits[r]) # 0 THEN 0 ELSE Abs(Summand(debits[r]))])

C7_Scenario ==
    raw = ScenarioTable =>
        /\ pc # "raised"
        /\ pc \in {"normalized", "done"} =>
              /\ detected.date_col = Some(<<"T","x","n"," ","D","a","t","e">>)
              /\ detected.description_col = Some(<<"N","a","r","r","a","t","i","o","n">>)
              /\ detected.credit_col = Some(<<"C","R"," ","A","m","t">>)
              /\ detected.debit_col = Some(<<"D","R"," ","A","m","t">>)
              /\ detected.balance_col = Some(<<"R","u","n","n","i","n","g"," ","B","a","l">>)
        /\ pc = "done" =>
              /\ result[1].monthly_income_estimate = 4500000
              /\ result[1].monthly_expense_estimate = 200000
              /\ result[1].avg_monthly_balance = 5093333
              /\ result[1].upi_transaction_frequency >= 2

\* C7 witness: the scenario statement has been summarised
C7_Witness == pc = "done" /\ raw = ScenarioTable /\ Len(canon) = 3

\* C8: every canonical transaction has a non-negative amount and a type that
\* is credit or debit.
C8_NonNegativeAmounts ==
    \A i \in 1..Len(canon) :
        /\ ~canon[i].amount.nan
        /\ canon[i].amount.v >= 0
        /\ canon[i].type \in {"credit", "debit"}

\* the raw amounts of a table without separate debit and credit columns
RawAmounts == ColumnNums(WorkFrame(raw), detected.amount_col)

\* C8 witness: a negative raw amount classified by its sign (no debit, credit,
\* type or description column) has become a positive debit amount
C8_Witness ==
    /\ pc = "normalized"
    /\ ~DualResolved
    /\ detected.type_col = None
    /\ detected.description_col = None
    /\ Truthy(detected.amount_col)
    /\ \E r \in 1..Len(raw.rows) : Summand(RawAmounts[r]) < 0
    /\ \E i \in 1..Len(canon) : canon[i].type = "debit" /\ canon[i].amount.v > 0

\* whether the amount of raw row r resolves to a number
Resolvable(work, roles, r) ==
    IF Truthy(roles.debit_col) /\ Truthy(roles.credit_col)
    THEN \/ ~ColumnNums(work, roles.debit_col)[r].nan
         \/ ~ColumnNums(work, roles.credit_col)[r].nan
    ELSE Truthy(roles.amount_col) /\ ~ColumnNums(work, roles.amount_col)[r].nan

\* C9: a raw row whose amount cannot be resolved to a number never appears
\* among the canonical transactions: the canonical transactions are as many
\* as the raw rows whose amount resolves.
C9_UnresolvedRowsDropped ==
    (pc \in {"normalized", "done"} /\ ~IsEmpty(raw)) =>
        Len(canon) = Cardinality({r \in 1..Len(raw.rows) :
                                     Resolvable(WorkFrame(raw), detected, r)})

\* C10: when the loader returns an empty table or the normaliser yields no
\* canonical transaction, the call does not raise and returns the summary
\* whose five fields are zero.
C10_ZeroSummary ==
    /\ (LoaderReturned /\ IsEmpty(raw)) => pc # "raised"
    /\ (pc = "done" /\ (IsEmpty(raw) \/ canon = << >>)) =>
          /\ result # None
          /\ result[1].monthly_income_estimate = 0
          /\ result[1].monthly_expense_estimate = 0
          /\ result[1].avg_monthly_balance = 0
          /\ result[1].income_volatility_index = 0
          /\ result[1].upi_transaction_frequency = 0

\* C10 witness: a non-empty table none of whose rows has a resolvable amount
\* has been answered
C10_Witness == pc = "done" /\ ~IsEmpty(raw) /\ canon = << >> /\ result = Some(ZeroSummary)

\* no digit occurs in the text
NoDigitsIn(s) == \A i \in 1..Len(s) : ~IsDigit(s[i])

\* neither a cell of the loaded table nor a line of the decoded text holds a digit
NoNumericContent ==
    /\ \A r \in 1..Len(raw.rows) : \A c \in 1..Len(raw.rows[r]) :
          NoDigitsIn(AsStr(raw.rows[r][c]))
    /\ \A l \in 1..Len(contents.text) : NoDigitsIn(contents.text[l])

\* C11: an input without numeric content in any cell or line, whatever its
\* headers, is answered with the all-zero summary, upi_transaction_frequency
\* being 0, and without raising.
C11_NoNumbersZeroSummary ==
    (LoaderReturned /\ NoNumericContent) =>
        /\ pc # "raised"
        /\ pc = "done" => result = Some(ZeroSummary)

\* the summary was computed by rule 4 from a numeric column that no keyword
\* names: no debit, credit, type, description or amount header resolves
AmbiguousColumnSummary ==
    /\ pc = "done"
    /\ ~IsEmpty(raw)
    /\ detected.debit_col = None
    /\ detected.credit_col = None
    /\ detected.type_col = None
    /\ detected.description_col = None
    /\ FindColumn(WorkFrame(raw).columns, AmountKeywords) = None
    /\ Truthy(detected.amount_col)

\* C12: with a single ambiguous numeric column and no debit, credit, type or
\* description column every row is a debit: monthly_expense_estimate is the
\* sum of the absolute values of the column and monthly_income_estimate is
\* 0, also when the raw values are non-negative.
C12_AmbiguousColumnAllDebit ==
    AmbiguousColumnSummary =>
        /\ result[1].monthly_income_estimate = 0
        /\ result[1].monthly_expense_estimate = SumOfAbsColumn(RawAmounts)

\* the decoded text holds the scenario's line
HasScenarioLine == \E l \in 1..Len(contents.text) : Strip(contents.text[l]) = ScenarioLine

\* C13: text that holds the line "2026-02-01 Salary credit 45000.00" and from
\* which no structured strategy recovers a table is handled by the text
\* fallback: the text extractor supplies the rows, nothing raises, and
\* monthly_income_estimate is positive.
C13_ScenarioLineFallback ==
    (LoaderReturned /\ HasScenarioLine /\ AllStructuredMiss) =>
        /\ TextExtractorCalled
        /\ tag = "text_fallback"
        /\ raw = ExtractTextTransactions(contents.text)
        /\ pc # "raised"
        /\ pc = "done" => result[1].monthly_income_estimate > 0

\* C13 witness: the text fallback supplied the scenario's line as a credit and
\* the summary was computed from it
C13_Witness ==
    /\ pc = "done"
    /\ HasScenarioLine
    /\ tag = "text_fallback"
    /\ \E i \in 1..Len(canon) : canon[i].type = "credit" /\ canon[i].description = ScenarioLine
    /\ result[1].monthly_income_estimate > 0

\* C14: binary garbage, whatever its bytes decode to, raises no error and is
\* answered with the all-zero summary.
C14_GarbageZeroSummary ==
    contents \in GarbageDocs =>
        /\ pc # "raised"
        /\ pc = "done" => result = Some(ZeroSummary)

UpperChar(c) ==
    IF c \in LowerSet
    THEN UpperChars[CHOOSE i \in 1..Len(LowerChars) : LowerChars[i] = c]
    ELSE c

\* a header in capitals
Capitals(h) == [i \in 1..Len(h) |-> UpperChar(h[i])]

\* a header with "_" for every blank and "/"
Underscored(h) == [i \in 1..Len(h) |-> IF h[i] \in {" ", "/"} THEN "_" ELSE h[i]]

\* a header in small letters between blanks
Padded(h) == <<" ">> \o Lower(h) \o <<" ", " ">>

\* the keyword lists of the seven roles
RoleKeywords ==
    <<DateKeywords, BalanceKeywords, TypeKeywords, DescriptionKeywords, DebitKeywords,
      CreditKeywords, AmountKeywords>>

\* the position of the header a role resolves to, 0 for none
PositionOf(columns, hit) ==
    IF hit = None THEN 0 ELSE MinOf(Positions(columns, hit[1]))

\* for each role the position of the header it resolves to
RolePositions(columns) ==
    [k \in 1..Len(RoleKeywords) |-> PositionOf(columns, FindColumn(columns, RoleKeywords[k]))]

\* the headers as _normalize_statement sees them
StrippedHeaders(columns) == [i \in 1..Len(columns) |-> Strip(columns[i])]

\* the headers rewritten in capitals, with underscores as separators, in
\* small letters padded with blanks, and in capitals with underscores
\* resolve to the roles given
RewrittenResolveTo(columns, roles) ==
    /\ RolePositions(StrippedHeaders([i \in 1..Len(columns) |-> Capitals(columns[i])])) = roles
    /\ RolePositions(StrippedHeaders([i \in 1..Len(columns) |-> Underscored(columns[i])])) = roles
    /\ RolePositions(StrippedHeaders([i \in 1..Len(columns) |-> Padded(columns[i])])) = roles
    /\ RolePositions(StrippedHeaders([i \in 1..Len(columns) |->
                                         Capitals(Underscored(columns[i]))])) = roles

\* the three spellings of the date header resolve to the date role
ExampleHeadersResolved ==
    /\ FindColumn(StrippedHeaders(<<<<"T","x","n"," ","D","a","t","e">>>>), DateKeywords) = Some(<<"T","x","n"," ","D","a","t","e">>)
    /\ FindColumn(StrippedHeaders(<<<<"T","X","N","_","D","A","T","E">>>>), DateKeywords) = Some(<<"T","X","N","_","D","A","T","E">>)
    /\ FindColumn(StrippedHeaders(<<<<" ","t","x","n"," ","d","a","t","e"," ">>>>), DateKeywords) = Some(<<"t","x","n"," ","d","a","t","e">>)

\* _normalize_statement has run on the loaded table
HeadersResolved == pc \in {"normalized", "raised"}

\* C16: header matching ignores letter case and surrounding or separating
\* blanks and punctuation: "Txn Date", "TXN_DATE" and " txn date " resolve
\* to the date role, and the headers of every loaded table resolve to the
\* same roles when rewritten in capitals, with underscores as separators or
\* in small letters padded with blanks.
C16_HeaderMatchingInsensitive ==
    /\ ExampleHeadersResolved
    /\ HeadersResolved =>
          RewrittenResolveTo(raw.columns, RolePositions(StrippedHeaders(raw.columns)))

\* C16 witness: the scenario's headers have been resolved, and so are their
\* capital forms with underscores
C16_Witness ==
    /\ pc = "normalized"
    /\ raw = ScenarioTable
    /\ detected.date_col = Some(<<"T","x","n"," ","D","a","t","e">>)
    /\ RolePositions([i \in 1..Len(raw.columns) |-> Capitals(Underscored(raw.columns[i]))])
           = <<1, 5, 0, 2, 4, 3, 3>>

\* the headers the claim lists as type headers
TypeHeaders == {<<"D","r","/","C","r">>, <<"D","e","b","i","t","/","C","r","e","d","i","t">>, <<"T","r","a","n","s"," ","T","y","p","e">>, <<"T","y","p","e">>}

\* a loaded table of an amount column and a type column
AmountAndTypeTable ==
    /\ ~IsEmpty(raw)
    /\ Len(raw.columns) = 2
    /\ raw.columns[1] = <<"A","m","o","u","n","t">>
    /\ raw.columns[2] \in TypeHeaders

\* the canonical transactions rule 2 gives for the rows of an amount and a
\* type column: rows without a numeric amount are dropped, the others get
\* the type from the type value and the absolute amount
RuleTwoRows ==
    DropNaAmount([r \in 1..Len(raw.rows) |->
        Canonical(IF ToNumeric(raw.rows[r][1]).nan THEN NaN
                  ELSE Num(Abs(ToNumeric(raw.rows[r][1]).v)),
                  TypeFromTypeValue(raw.rows[r][2]), NaN, << >>)])

\* C20: a table with an amount column and a type column headed Dr/Cr,
\* Debit/Credit, Trans Type or Type, and without separate debit and credit
\* columns, is classified by rule 2: the type of a row comes from the value
\* of its type column and its amount is the absolute value of its amount
\* column.
C20_TypeColumnRuleTwo ==
    (AmountAndTypeTable /\ pc \in {"normalized", "done"}) =>
        /\ detected.type_col = Some(raw.columns[2])
        /\ detected.amount_col = Some(<<"A","m","o","u","n","t">>)
        /\ canon = RuleTwoRows


(***************************************************************************)
(* Independent invocations of analyze_bank_statement.  The function and    *)
(* _load_statement_dataframe keep everything in arguments and locals       *)
(* (buffer, text, loaders, work, normalized); the module has no global     *)
(* that either of them assigns.  Invocations run on separate threads or    *)
(* one after another; the interpreter may switch between them at any       *)
(* step.                                                                   *)
(***************************************************************************)
\* number of invocations in flight
Invocations == 3

\* the arguments, position and locals of the running invocation
Running ==
    [contents |-> contents, filename |-> filename, pc |-> pc, loaders |-> loaders,
     li |-> li, called |-> called, raw |-> raw, tag |-> tag, canon |-> canon,
     detected |-> detected, result |-> result]

\* an invocation that has been called with input in and has not run yet
Fresh(in) ==
    [contents |-> in[1], filename |-> in[2], pc |-> "start", loaders |-> << >>,
     li |-> 0, called |-> << >>, raw |-> EmptyFrame, tag |-> "", canon |-> << >>,
     detected |-> NoneDetected, result |-> None]

\* a resumed invocation whose table is a global shared by all invocations
ResumeSharedFrame(s) ==
    /\ contents' = s.contents /\ filename' = s.filename /\ pc' = s.pc
    /\ loaders' = s.loaders /\ li' = s.li /\ called' = s.called
    /\ raw' = raw
    /\ tag' = s.tag /\ canon' = s.canon /\ detected' = s.detected
    /\ result' = s.result

\* a suspended invocation s continues with its own arguments and locals
Resume(s) ==
    /\ contents' = s.contents /\ filename' = s.filename /\ pc' = s.pc
    /\ loaders' = s.loaders /\ li' = s.li /\ called' = s.called
    /\ raw' = s.raw
    /\ tag' = s.tag /\ canon' = s.canon /\ detected' = s.detected
    /\ result' = s.result

\* the interpreter suspends the running invocation and continues another
Switch ==
    \E s \in BagToSet(parked) :
        /\ parked' = (parked (-) SetToBag({s})) (+) SetToBag({Running})
        /\ Resume(s)
        /\ UNCHANGED otherServices

\* a file that the delimited reader and the JSON reader both read as a table
TwoWayDoc ==
    Document(Produced(StrategyTable(<<"1">>)), Raised, Produced(StrategyTable(<<"3">>)),
             Raised, NoParser, NoParser, << >>)

\* inputs that between them take every path of analyze_bank_statement
ConcurrentInputs ==
    {<<TwoWayDoc, None>>,
     <<TwoWayDoc, Some(<<"s",".","j","s","o","n">>)>>,
     <<Document(Raised, Raised, Raised, Raised, NoParser, NoParser, <<<<"n","o","t","h","i","n","g"," ","t","o"," ","s","e","e">>>>),
       None>>,
     <<Document(Produced(Frame(<<<<"A","m","o","u","n","t">>>>, <<Cells(<<<<"a","b","c">>>>)>>)), Raised, Raised,
                Raised, NoParser, NoParser, << >>), Some(<<"s",".","C","S","V">>)>>,
     <<Document(Produced(Frame(<<<<"V","a","l","u","e"," ">>, <<"V","a","l","u","e">>>>, <<Cells(<<<<"0",".","5">>, <<"0",".","2">>>>)>>)),
                Raised, Raised, Raised, NoParser, NoParser, << >>), None>>}

\* the bag of the fresh invocations of the inputs ins[1], ins[2], ...
FreshBag(ins) ==
    [s \in {Fresh(ins[i]) : i \in DOMAIN ins} |->
        Cardinality({i \in DOMAIN ins : Fresh(ins[i]) = s})]

InitConcurrent ==
    /\ \E in \in ConcurrentInputs : contents = in[1] /\ filename = in[2]
    /\ pc = "start"
    /\ loaders = << >>
    /\ li = 0
    /\ called = << >>
    /\ raw = EmptyFrame
    /\ tag = ""
    /\ canon = << >>
    /\ detected = NoneDetected
    /\ result = None
    /\ \E ins \in [1..(Invocations - 1) -> ConcurrentInputs] : parked = FreshBag(ins)
    /\ IdleServices

NextConcurrent ==
    \/ Next
    \/ Switch

SpecConcurrent == InitConcurrent /\ [][NextConcurrent]_vars

\* every invocation in flight
AllInvocations == BagToSet(parked) \cup {Running}

\* the invocation has returned or raised
Finished(s) == s.pc \in {"done", "raised"}

SameInput(r, s) == r.contents = s.contents /\ r.filename = s.filename

MaxAdds == 2

\* no statement is being analysed
IdleStatement ==
    /\ contents = << >> /\ filename = None /\ pc = "idle" /\ loaders = << >>
    /\ li = 0 /\ called = << >> /\ raw = EmptyFrame /\ tag = "" /\ canon = << >>
    /\ detected = NoneDetected /\ result = None /\ parked = EmptyBag

\* the characters of identifiers and dates in code point order
AsciiOrder == <<" ","-","0","1","2","3","4","5","6","7","8","9","A","B","C","D","E","F","G","H","I","J","K","L","M","N","O","P","Q","R","S","T","U","V","W","X","Y","Z","_","a","b","c","d","e","f","g","h","i","j","k","l","m","n","o","p","q","r","s","t","u","v","w","x","y","z">>

CodeOf(c) == CHOOSE i \in 1..Len(AsciiOrder) : AsciiOrder[i] = c

\* a < b for Python strings
StrLess(a, b) ==
    \E i \in 1..(Len(a) + 1) :
        /\ i <= Len(b)
        /\ \A j \in 1..(i - 1) : a[j] = b[j]
        /\ (i = Len(a) + 1 \/ CodeOf(a[i]) < CodeOf(b[i]))

\* n in decimal, zero-padded to w digits
ZeroPad(n, w) == [i \in 1..w |-> Digits[((n \div (10 ^ (w - i))) % 10) + 1]]

\* date.isoformat()
IsoFormat(d) == ZeroPad(d[1], 4) \o <<"-">> \o ZeroPad(d[2], 2) \o <<"-">> \o ZeroPad(d[3], 2)

\* date.fromisoformat(text)
FromIsoFormat(text) ==
    <<DigitsToInt(SubSeq(text, 1, 4)), DigitsToInt(SubSeq(text, 6, 7)),
      DigitsToInt(SubSeq(text, 9, 10))>>

\* a < b for dates
DateLess(a, b) ==
    \/ a[1] < b[1]
    \/ a[1] = b[1] /\ a[2] < b[2]
    \/ a[1] = b[1] /\ a[2] = b[2] /\ a[3] < b[3]

\* a < b for tuples of integers, as Python compares sequences
CodesLess(a, b) ==
    \E i \in 1..(Len(a) + 1) :
        /\ i <= Len(b)
        /\ \A j \in 1..(i - 1) : a[j] = b[j]
        /\ (i = Len(a) + 1 \/ a[i] < b[i])

\* the code points of a string
Codes(s) == [i \in 1..Len(s) |-> CodeOf(s[i])]

\* a < b for key tuples whose components are tuples of integers
KeyLess(a, b) ==
    \E i \in 1..Len(a) :
        /\ \A j \in 1..(i - 1) : a[j] = b[j]
        /\ CodesLess(a[i], b[i])

\* the key of _sort_entries, lines 46-51
SortKey(x) == <<Codes(x.user_id), Codes(x.entry_date), <<x.created_at>>, <<x.entry_id>>>>

\* the key of _user_entries, line 57
UserKey(x) == <<Codes(x.entry_date), <<x.created_at>>, <<x.entry_id>>>>

\* x put into a sorted list behind its first k items
InsertSorted(x, sorted, k) ==
    SubSeq(sorted, 1, k) \o <<x>> \o SubSeq(sorted, k + 1, Len(sorted))

\* the keyed items in key order, items of equal key in their given order
RECURSIVE SortedByKey(_)
SortedByKey(keyed) ==
    IF keyed = << >> THEN << >>
    ELSE InsertSorted(keyed[Len(keyed)], SortedByKey(SubSeq(keyed, 1, Len(keyed) - 1)),
                      Cardinality({i \in 1..(Len(keyed) - 1) :
                                     ~KeyLess(keyed[Len(keyed)].key, keyed[i].key)}))

\* what sorted() returns for the keyed items
Undecorated(keyed) == [i \in 1..Len(keyed) |-> keyed[i].item]

\* _sort_entries
SortEntries(entries) ==
    Undecorated(SortedByKey([i \in 1..Len(entries) |->
                                [key |-> SortKey(entries[i]), item |-> entries[i]]]))

\* the entries of the user in the order of the list, line 56
Filtered(entries, user_id) == SelectSeq(entries, LAMBDA x : x.user_id = user_id)

\* sorted(filtered, key=...), line 57
SortUserEntries(filtered) ==
    Undecorated(SortedByKey([i \in 1..Len(filtered) |->
                                [key |-> UserKey(filtered[i]), item |-> filtered[i]]]))

\* _user_entries
UserEntries(entries, user_id) == SortUserEntries(Filtered(entries, user_id))

\* _to_entry_model
ToEntryModel(r) ==
    [entry_id |-> r.entry_id, user_id |-> r.user_id,
     entry_date |-> FromIsoFormat(r.entry_date), entry_type |-> r.entry_type,
     amount |-> r.amount, created_at |-> r.created_at]

\* the least of a non-empty set of strings
LeastStr(days) == CHOOSE d \in days : \A e \in days \ {d} : StrLess(d, e)

\* sorted(grouped.keys()), line 78
RECURSIVE SortedDays(_)
SortedDays(days) ==
    IF days = {} THEN << >>
    ELSE <<LeastStr(days)>> \o SortedDays(days \ {LeastStr(days)})

\* sum(float(x["amount"]) for x in records if x["entry_type"] == kind)
AmountOfType(records, kind) ==
    Sum([i \in 1..Len(SelectSeq(records, LAMBDA x : x.entry_type = kind)) |->
            SelectSeq(records, LAMBDA x : x.entry_type = kind)[i].amount])

\* lines 86-96 for one day
DaySummary(records, day, opening, inflow, outflow) ==
    [user_id |-> records[1].user_id, entry_date |-> FromIsoFormat(day),
     opening_balance |-> opening, total_inflow |-> inflow, total_outflow |-> outflow,
     closing_balance |-> opening + inflow - outflow, transaction_count |-> Len(records)]

\* grouped[day], lines 72-74 and 79
RecordsOf(user_entries, day) == SelectSeq(user_entries, LAMBDA x : x.entry_date = day)

\* the loop of lines 78-96 that forgets the running balance between days
RECURSIVE SummariesNoCarry(_, _, _)
SummariesNoCarry(days, user_entries, running_balance) ==
    IF days = << >> THEN << >>
    ELSE <<DaySummary(RecordsOf(user_entries, Head(days)), Head(days), 0,
                      AmountOfType(RecordsOf(user_entries, Head(days)), "inflow"),
                      AmountOfType(RecordsOf(user_entries, Head(days)), "outflow"))>>
         \o SummariesNoCarry(Tail(days), user_entries, 0)

\* the loop of lines 78-96 from a running balance
RECURSIVE SummariesLoop(_, _, _)
SummariesLoop(days, user_entries, running_balance) ==
    IF days = << >> THEN << >>
    ELSE <<DaySummary(RecordsOf(user_entries, Head(days)), Head(days), running_balance,
                      AmountOfType(RecordsOf(user_entries, Head(days)), "inflow"),
                      AmountOfType(RecordsOf(user_entries, Head(days)), "outflow"))>>
         \o SummariesLoop(Tail(days), user_entries,
                          running_balance
                          + AmountOfType(RecordsOf(user_entries, Head(days)), "inflow")
                          - AmountOfType(RecordsOf(user_entries, Head(days)), "outflow"))

\* _compute_daily_summaries
ComputeDailySummaries(user_entries) ==
    SummariesLoop(SortedDays({user_entries[i].entry_date : i \in 1..Len(user_entries)}),
                  user_entries, 0)

\* get_report computing the summaries and the balance from the entries in
\* the date range only
ReportOfRange(user_id, entries, all_daily, start_date, end_date) ==
    [user_id |-> user_id,
     entries |->
        SelectSeq([i \in 1..Len(entries) |-> ToEntryModel(entries[i])],
                  LAMBDA x : /\ (start_date = None \/ ~DateLess(x.entry_date, start_date[1]))
                             /\ (end_date = None \/ ~DateLess(end_date[1], x.entry_date))),
     daily_summaries |->
        ComputeDailySummaries(
            SelectSeq(entries,
                      LAMBDA x : /\ (start_date = None
                                        \/ ~DateLess(FromIsoFormat(x.entry_date), start_date[1]))
                                 /\ (end_date = None
                                        \/ ~DateLess(end_date[1], FromIsoFormat(x.entry_date))))),
     current_balance |->
        IF all_daily # << >> THEN all_daily[Len(all_daily)].closing_balance ELSE 0]

\* lines 143-156 of get_report for the user's entries and all their summaries
ReportOf(user_id, entries, all_daily, start_date, end_date) ==
    [user_id |-> user_id,
     entries |->
        SelectSeq([i \in 1..Len(entries) |-> ToEntryModel(entries[i])],
                  LAMBDA x : /\ (start_date = None \/ ~DateLess(x.entry_date, start_date[1]))
                             /\ (end_date = None \/ ~DateLess(end_date[1], x.entry_date))),
     daily_summaries |->
        SelectSeq(all_daily,
                  LAMBDA x : /\ (start_date = None \/ ~DateLess(x.entry_date, start_date[1]))
                             /\ (end_date = None \/ ~DateLess(end_date[1], x.entry_date))),
     current_balance |->
        IF all_daily # << >> THEN all_daily[Len(all_daily)].closing_balance ELSE 0]

\* get_report for a user_id that is not blank, on the entries of the file
GetReport(file, user_id, start_date, end_date) ==
    ReportOf(Strip(user_id), UserEntries(file, Strip(user_id)),
             ComputeDailySummaries(UserEntries(file, Strip(user_id))), start_date, end_date)

\* lines 164-174: the day has no entry
EmptyDay(user_id, entry_date, prior_days) ==
    [user_id |-> user_id, entry_date |-> entry_date,
     opening_balance |->
        IF prior_days # << >> THEN prior_days[Len(prior_days)].closing_balance ELSE 0,
     total_inflow |-> 0, total_outflow |-> 0,
     closing_balance |->
        IF prior_days # << >> THEN prior_days[Len(prior_days)].closing_balance ELSE 0,
     transaction_count |-> 0]

\* get_day_summary, lines 160-174, for the report of line 159
DaySummaryIn(report, user_id, entry_date) ==
    IF \E k \in 1..Len(report.daily_summaries) :
            report.daily_summaries[k].entry_date = entry_date
    THEN report.daily_summaries[
            CHOOSE k \in 1..Len(report.daily_summaries) :
                /\ report.daily_summaries[k].entry_date = entry_date
                /\ \A j \in (k + 1)..Len(report.daily_summaries) :
                        report.daily_summaries[j].entry_date # entry_date]
    ELSE EmptyDay(user_id, entry_date,
                  SelectSeq(report.daily_summaries,
                            LAMBDA x : DateLess(x.entry_date, entry_date)))

\* a CashLedgerEntryCreate
Payload(user_id, entry_date, entry_type, amount) ==
    [user_id |-> user_id, entry_date |-> entry_date, entry_type |-> entry_type,
     amount |-> amount]

LedgerPayloads ==
    {Payload(<<"u","1">>, <<2026, 2, 1>>, "inflow", 100000),
     Payload(<<" ","u","1"," ">>, <<2026, 1, 31>>, "outflow", 25050),
     Payload(<<"u","1">>, <<2026, 2, 3>>, "inflow", 7),
     Payload(<<"u","2">>, <<2026, 2, 1>>, "outflow", 500),
     Payload(<<" "," ">>, <<2026, 2, 1>>, "inflow", 100)}

\* one call of add_entry: its position, argument and locals
AddCall(at, payload, record, entries, report, response) ==
    [pc |-> at, payload |-> payload, record |-> record, entries |-> entries,
     report |-> report, response |-> response]

\* the records built so far, lines 104-112
Records == {adds[i].record[1] : i \in {j \in 1..Len(adds) : adds[j].record # None}}

\* datetime.now(): the latest reading so far or a later one
ClockReadings ==
    IF Records = {} THEN {1}
    ELSE {t \in 1..(Cardinality(Records) + 1) :
            /\ \A r \in Records : r.created_at <= t
            /\ \E r \in Records : t <= r.created_at + 1}

\* lines 104-112
NewRecord(payload, entry_id, created_at) ==
    [entry_id |-> entry_id, user_id |-> Strip(payload.user_id),
     entry_date |-> IsoFormat(payload.entry_date), entry_type |-> payload.entry_type,
     amount |-> payload.amount, created_at |-> created_at]

ledgerFrame == <<statement, risk, loans>>

\* add_entry is called, lines 100-112: a blank user_id raises ValueError;
\* uuid4 draws an identifier not drawn before and the clock is read
AddEntry(payload) ==
    /\ Len(adds) < MaxAdds
    /\ IF Strip(payload.user_id) = << >>
       THEN adds' = Append(adds, AddCall("raised", payload, None, << >>, None, None))
       ELSE \E entry_id \in (1..MaxAdds) \ {r.entry_id : r \in Records} :
            \E created_at \in ClockReadings :
                adds' = Append(adds, AddCall("waiting", payload,
                                             Some(NewRecord(payload, entry_id, created_at)),
                                             << >>, None, None))
    /\ UNCHANGED <<storage, lock, ledgerFrame>>

\* RLock.acquire by thread i: the lock is free or i holds it
Acquired(i) ==
    IF lock = None THEN Some([owner |-> i, count |-> 1])
    ELSE Some([owner |-> i, count |-> lock[1].count + 1])

\* RLock.release by its holder
Released ==
    IF lock[1].count = 1 THEN None
    ELSE Some([owner |-> lock[1].owner, count |-> lock[1].count - 1])

\* CanAcquire of a lock that excludes nobody
CanAcquireAlways(i) == TRUE

\* CanAcquire of a Lock that is not re-entrant
CanAcquireOnce(i) == lock = None

\* RLock.acquire returns for thread i
CanAcquire(i) == IF lock = None THEN TRUE ELSE lock[1].owner = i

\* lines 114-115: with self._lock, then _load_entries; a missing file reads
\* as no entries
AcquireAndLoad(i) ==
    /\ adds[i].pc = "waiting"
    /\ CanAcquire(i)
    /\ lock' = Acquired(i)
    /\ adds' = [adds EXCEPT ![i].pc = "loaded", ![i].entries = storage]
    /\ UNCHANGED <<storage, ledgerFrame>>

\* lines 116-118: append, sort, write the file and replace the old one
Save(i) ==
    /\ adds[i].pc = "loaded"
    /\ storage' = SortEntries(Append(adds[i].entries, adds[i].record[1]))
    /\ adds' = [adds EXCEPT ![i].pc = "saved",
                            ![i].entries = SortEntries(Append(adds[i].entries, adds[i].record[1]))]
    /\ UNCHANGED <<lock, ledgerFrame>>

\* the response of lines 121-124 from the report of get_day_summary
Response(record, report, payload) ==
    [entry |-> ToEntryModel(record),
     day_summary |-> DaySummaryIn(report, record.user_id, payload.entry_date)]

\* line 120: get_day_summary calls get_report, which takes the lock again
\* (line 136), reads the file and gives the lock back; the report and the
\* day's summary are computed from what was read
Report(i) ==
    /\ adds[i].pc = "saved"
    /\ CanAcquire(i)
    /\ UNCHANGED lock
    /\ adds' = [adds EXCEPT
                   ![i].pc = "responding",
                   ![i].report = Some(GetReport(storage, adds[i].record[1].user_id, None, None)),
                   ![i].response =
                        Some(Response(adds[i].record[1],
                                      GetReport(storage, adds[i].record[1].user_id, None, None),
                                      adds[i].payload))]
    /\ UNCHANGED <<storage, ledgerFrame>>

\* the with block of line 114 is left and add_entry returns
Return(i) ==
    /\ adds[i].pc = "responding"
    /\ lock' = Released
    /\ adds' = [adds EXCEPT ![i].pc = "returned"]
    /\ UNCHANGED <<storage, ledgerFrame>>

\* a file left by an earlier run of the service, as _save_entries wrote it
EarlierFile ==
    SortEntries(<<[entry_id |-> 12, user_id |-> <<"u","1">>, entry_date |-> IsoFormat(<<2026, 2, 2>>),
                   entry_type |-> "outflow", amount |-> 12000, created_at |-> 0],
                  [entry_id |-> 11, user_id |-> <<"u","1">>, entry_date |-> IsoFormat(<<2026, 1, 30>>),
                   entry_type |-> "inflow", amount |-> 50000, created_at |-> 0]>>)

\* the service is constructed: there is no file, or the file of an earlier run
InitLedger ==
    /\ IdleStatement
    /\ storage \in {<< >>, EarlierFile}
    /\ lock = None
    /\ adds = << >>
    /\ risk = None
    /\ loans = None

NextLedger ==
    \/ \E payload \in LedgerPayloads : AddEntry(payload)
    \/ \E i \in 1..Len(adds) : AcquireAndLoad(i)
    \/ \E i \in 1..Len(adds) : Save(i)
    \/ \E i \in 1..Len(adds) : Report(i)
    \/ \E i \in 1..Len(adds) : Return(i)

SpecLedger == InitLedger /\ [][NextLedger]_vars

(***************************************************************************)
(* Properties of the cash ledger                                           *)
(***************************************************************************)
\* the amounts of the listed entries of one date and one type, added up
TotalOn(entries, entry_date, kind) ==
    Sum([j \in 1..Len(entries) |->
            IF entries[j].entry_date = entry_date /\ entries[j].entry_type = kind
            THEN entries[j].amount ELSE 0])

\* the summaries of a report are one per day with entries, in date order,
\* and chain from 0
Chained(entries, daily) ==
    /\ {daily[k].entry_date : k \in 1..Len(daily)}
            = {entries[j].entry_date : j \in 1..Len(entries)}
    /\ \A k \in 1..(Len(daily) - 1) : DateLess(daily[k].entry_date, daily[k + 1].entry_date)
    /\ \A k \in 1..Len(daily) :
        /\ daily[k].opening_balance = IF k = 1 THEN 0 ELSE daily[k - 1].closing_balance
        /\ daily[k].closing_balance
                = daily[k].opening_balance
                  + TotalOn(entries, daily[k].entry_date, "inflow")
                  - TotalOn(entries, daily[k].entry_date, "outflow")

\* C17: whenever add_entry has computed the user's report, whatever the
\* order in which the dates were added, the daily summaries are one per day
\* with entries in date order; the first opens at 0, each later one opens at
\* the closing balance of the one before it, and each closes at its opening
\* balance plus the day's inflow minus the day's outflow
C17_DailySummariesChain ==
    \A i \in 1..Len(adds) :
        adds[i].report # None
            => Chained(adds[i].report[1].entries, adds[i].report[1].daily_summaries)

\* a call added a day that lies before a day already in the ledger, and its
\* report has three or more days, the first with a single entry, with a
\* balance carried into the second
C17_Witness ==
    \E i \in 1..Len(adds) :
        /\ adds[i].report # None
        /\ Len(adds[i].report[1].daily_summaries) >= 3
        /\ DateLess(adds[i].payload.entry_date,
                    adds[i].report[1].daily_summaries[
                        Len(adds[i].report[1].daily_summaries)].entry_date)
        /\ adds[i].report[1].daily_summaries[1].transaction_count = 1
        /\ adds[i].report[1].daily_summaries[2].opening_balance # 0

(***************************************************************************)
(* assess_risk (risk_service.py): the credit score it uses.  Amounts are   *)
(* rupees; the arithmetic of _estimate_cibil is done on exact fractions    *)
(* n/d.  The floating point result differs from the exact one by far less *)
(* than the distance of any modelled score to a rounding boundary, except  *)
(* when the exact score lies on the boundary: there either neighbour is a  *)
(* possible outcome.                                                       *)
(***************************************************************************)
RECURSIVE Gcd(_, _)
Gcd(a, b) == IF b = 0 THEN a ELSE Gcd(b, a % b)

\* the fraction n/d in lowest terms (d > 0)
Reduced(n, d, g) == [n |-> n \div g, d |-> d \div g]

Q(n, d) == Reduced(n, d, Gcd(Abs(n), d))

Whole(k) == [n |-> k, d |-> 1]

QLess(a, b) == a.n * b.d < b.n * a.d

QMax(a, b) == IF QLess(a, b) THEN b ELSE a

QMin(a, b) == IF QLess(b, a) THEN b ELSE a

QSumOver(a, b, l) == Q(a.n * (l \div a.d) + b.n * (l \div b.d), l)

QAdd(a, b) == QSumOver(a, b, (a.d \div Gcd(a.d, b.d)) * b.d)

QSub(a, b) == QAdd(a, [n |-> -b.n, d |-> b.d])

\* a * b, with the common factors taken out before multiplying
QMulOver(a, b, g, h) == Q((a.n \div g) * (b.n \div h), (a.d \div h) * (b.d \div g))

QMul(a, b) == QMulOver(a, b, Gcd(Abs(a.n), b.d), Gcd(Abs(b.n), a.d))

\* a / b for b > 0
QDiv(a, b) == Q(a.n * b.d, a.d * b.n)

\* _clamp
Clamp(value, low, high) == QMax(low, QMin(high, value))

\* _normalize_text
NormalizeText(value) == Lower(Strip(value))

\* _occupation_risk: the risk points
OccupationRisk(occupation) ==
    IF ContainsAny(NormalizeText(occupation),
                   <<<<"g","o","v","e","r","n","m","e","n","t">>, <<"g","o","v","t">>, <<"t","e","a","c","h","e","r">>, <<"b","a","n","k"," ","e","m","p","l","o","y","e","e">>>>) THEN 12
    ELSE IF ContainsAny(NormalizeText(occupation),
                        <<<<"s","a","l","a","r","i","e","d">>, <<"s","o","f","t","w","a","r","e">>, <<"e","n","g","i","n","e","e","r">>, <<"p","r","i","v","a","t","e"," ","e","m","p","l","o","y","e","e">>>>) THEN 16
    ELSE IF ContainsAny(NormalizeText(occupation),
                        <<<<"s","e","l","f">>, <<"b","u","s","i","n","e","s","s">>, <<"s","h","o","p">>, <<"v","e","n","d","o","r">>, <<"t","r","a","d","e","r">>>>) THEN 24
    ELSE IF ContainsAny(NormalizeText(occupation),
                        <<<<"d","a","i","l","y"," ","w","a","g","e">>, <<"f","r","e","e","l","a","n","c","e","r">>, <<"c","o","n","t","r","a","c","t">>>>) THEN 34
    ELSE IF Contains(NormalizeText(occupation), <<"s","t","u","d","e","n","t">>) THEN 36
    ELSE 26

\* _age_risk: the risk points
AgeRisk(age) ==
    IF 23 <= age /\ age <= 55 THEN 14
    ELSE IF 18 <= age /\ age < 23 THEN 28
    ELSE IF 56 <= age /\ age <= 65 THEN 26
    ELSE 34

\* _estimate_cibil, lines 141-145: the five ratios
IncomeRatio(p) == Clamp(QDiv(p.monthly_income, Whole(100000)), Whole(0), Whole(1))

EmiRatio(p) ==
    Clamp(QDiv(p.existing_emis, QMax(p.monthly_income, Whole(1))), Whole(0), Q(12, 10))

ExpenseRatio(p) ==
    Clamp(QDiv(p.monthly_expenses, QMax(p.monthly_income, Whole(1))), Whole(0), Q(14, 10))

SavingsMonths(p) ==
    Clamp(QDiv(p.current_savings, QMax(p.monthly_income, Whole(1))), Whole(0), Whole(12))

LoanBurden(p) ==
    Clamp(QDiv(p.loan_amount, QMax(QMul(p.monthly_income, Whole(12)), Whole(1))),
          Whole(0), Whole(3))

\* 28 * (savings_months / 6.0 if savings_months <= 6 else 1.0)
SavingsTerm(months) ==
    QMul(Whole(28), IF ~QLess(Whole(6), months) THEN QDiv(months, Whole(6)) ELSE Whole(1))

\* lines 150-159
CibilScore(p) ==
    QSub(QSub(QSub(QAdd(QSub(QSub(QAdd(Whole(675),
                                       QMul(Whole(35), IncomeRatio(p))),
                                  QMul(Whole(95), EmiRatio(p))),
                             QMul(Whole(75), QMax(QSub(ExpenseRatio(p), Q(45, 100)), Whole(0)))),
                        SavingsTerm(SavingsMonths(p))),
                   QMul(Whole(45), QMax(QSub(LoanBurden(p), Q(8, 10)), Whole(0)))),
              QMul(Q(8, 10), Whole(OccupationRisk(p.occupation)))),
         QMul(Q(5, 10), Whole(AgeRisk(p.age))))

\* int(round(x)) for x >= 0 computed in floating point: the nearest
\* integer, either neighbour when x is half-way
Rounded(x, q) ==
    IF 2 * (x.n - q * x.d) = x.d THEN {q, q + 1} ELSE {RoundQR(q, x.n - q * x.d, x.d)}

\* _estimate_cibil: the values line 160 can return
EstimateCibil(p) ==
    Rounded(Clamp(CibilScore(p), Whole(520), Whole(790)),
            Clamp(CibilScore(p), Whole(520), Whole(790)).n
                \div Clamp(CibilScore(p), Whole(520), Whole(790)).d)

\* line 211 estimating whether or not the request carries a score
CibilScoreUsedAlwaysEstimated(p) == EstimateCibil(p)

\* line 211
CibilScoreUsed(p) == IF p.cibil_score = None THEN EstimateCibil(p) ELSE {p.cibil_score[1]}

\* _cibil_risk: the risk points
CibilRisk(cibil_score) ==
    IF cibil_score >= 780 THEN 8
    ELSE IF cibil_score >= 720 THEN 14
    ELSE IF cibil_score >= 680 THEN 22
    ELSE IF cibil_score >= 620 THEN 34
    ELSE 46

\* a RiskAssessmentRequest; purpose does not reach the credit score
RiskRequest(income, emis, savings, expenses, cibil, loan, occupation, age) ==
    [monthly_income |-> income, existing_emis |-> emis, current_savings |-> savings,
     monthly_expenses |-> expenses, cibil_score |-> cibil, loan_amount |-> loan,
     occupation |-> occupation, age |-> age]

\* requests that satisfy the field constraints of the schema
RiskRequests ==
    {RiskRequest(income, emis, savings, expenses, cibil, loan, occupation, age) :
        income \in {Q(1, 2), Whole(28000), Whole(30000), Whole(250000)},
        emis \in {Whole(0), Whole(2500), Whole(40000)},
        savings \in {Whole(0), Whole(22000), Whole(2000000)},
        expenses \in {Whole(0), Whole(16000), Whole(150000)},
        cibil \in {None, Some(300), Some(680), Some(900)},
        loan \in {Whole(80000), Whole(5000000)},
        occupation \in {<<"s","e","l","f"," ","e","m","p","l","o","y","e","d">>, <<" ","G","o","v","t"," ","T","e","a","c","h","e","r">>, <<"s","t","u","d","e","n","t">>, <<"s","t","r","e","e","t"," ","v","e","n","d","o","r">>,
                        <<"x","y">>},
        age \in {18, 29, 60, 80}}

\* assess_risk, lines 210-212 and 282-283: the response's credit score
\* fields; the other fields are computed from the other components and do
\* not depend on them
AssessRisk ==
    /\ risk.pc = "called"
    /\ \E used \in CibilScoreUsed(risk.payload) :
        risk' = [pc |-> "returned", payload |-> risk.payload,
                 response |-> Some([cibil_score_used |-> used,
                                    cibil_estimated |-> (risk.payload.cibil_score = None),
                                    cibil_risk |-> CibilRisk(used)])]
    /\ UNCHANGED <<statement, storage, lock, adds, loans>>

InitRisk ==
    /\ IdleStatement
    /\ storage = << >> /\ lock = None /\ adds = << >>
    /\ loans = None
    /\ \E p \in RiskRequests : risk = [pc |-> "called", payload |-> p, response |-> None]

NextRisk == AssessRisk

SpecRisk == InitRisk /\ [][NextRisk]_vars

\* C18: the response says the score was estimated exactly when the request
\* carries none; a provided score is used unchanged; an estimated score lies
\* within 300..900
C18_CibilUsed ==
    risk.pc = "returned" =>
        /\ risk.response[1].cibil_estimated = (risk.payload.cibil_score = None)
        /\ risk.payload.cibil_score # None
                => risk.response[1].cibil_score_used = risk.payload.cibil_score[1]
        /\ risk.payload.cibil_score = None
                => /\ 300 <= risk.response[1].cibil_score_used
                   /\ risk.response[1].cibil_score_used <= 900

\* a request without a score has been answered with an estimate strictly
\* between the clamping limits
C18_Witness ==
    /\ risk.pc = "returned"
    /\ risk.payload.cibil_score = None
    /\ risk.response[1].cibil_estimated
    /\ 520 < risk.response[1].cibil_score_used
    /\ risk.response[1].cibil_score_used < 790

(***************************************************************************)
(* recommend_loans (loan_service.py).  Interest rates are hundredths of a  *)
(* percent, years of tenure hundredths of a year, scores exact fractions.  *)
(* A score that lies exactly half-way between two hundredths rounds to     *)
(* either in floating point; both are outcomes.  estimated_emi,            *)
(* annual_tax_savings and adjusted_approval_probability are computed from  *)
(* the same row beside loan_score and do not enter the ranking; of         *)
(* estimated_emi only the OverflowError of the power in _emi is kept.      *)
(***************************************************************************)
\* str.startswith
StartsWith(s, prefix) == Len(s) >= Len(prefix) /\ SubSeq(s, 1, Len(prefix)) = prefix

\* str(value).strip().lower() of a field of a catalog row
Field(value) == Lower(Strip(value))

\* _secured_label
SecuredLabel(value) ==
    IF Contains(Field(value), <<"y","e","s","/","n","o">>) THEN "mixed"
    ELSE IF StartsWith(Field(value), <<"y","e","s">>) THEN "yes"
    ELSE "no"

\* category_base_rates.get(loan_category, 12.5), lines 92-102
CategoryBaseRate(loan_category) ==
    IF loan_category = <<"r","e","t","a","i","l">> THEN 1180
    ELSE IF loan_category = <<"b","u","s","i","n","e","s","s">> THEN 1280
    ELSE IF loan_category = <<"a","g","r","i","c","u","l","t","u","r","e">> THEN 840
    ELSE IF loan_category = <<"p","r","i","o","r","i","t","y"," ","s","e","c","t","o","r">> THEN 880
    ELSE IF loan_category = <<"g","o","v","e","r","n","m","e","n","t"," ","s","c","h","e","m","e">> THEN 920
    ELSE IF loan_category = <<"d","i","g","i","t","a","l"," ","l","e","n","d","i","n","g">> THEN 1850
    ELSE IF loan_category = <<"r","u","r","a","l">> THEN 1120
    ELSE IF loan_category = <<"h","o","u","s","i","n","g">> THEN 900
    ELSE 1250

\* lines 105-118
TypeBaseRate(loan_type, base_rate) ==
    IF Contains(loan_type, <<"h","o","m","e"," ","l","o","a","n">>) \/ Contains(loan_type, <<"a","f","f","o","r","d","a","b","l","e"," ","h","o","u","s","i","n","g">>) THEN 870
    ELSE IF Contains(loan_type, <<"e","d","u","c","a","t","i","o","n"," ","l","o","a","n">>) THEN 1020
    ELSE IF Contains(loan_type, <<"g","o","l","d"," ","l","o","a","n">>) THEN 1080
    ELSE IF Contains(loan_type, <<"l","o","a","n"," ","a","g","a","i","n","s","t"," ","p","r","o","p","e","r","t","y">>) THEN 1050
    ELSE IF Contains(loan_type, <<"p","e","r","s","o","n","a","l"," ","l","o","a","n">>) THEN 1440
    ELSE IF Contains(loan_type, <<"b","n","p","l">>) THEN 2100
    ELSE IF Contains(loan_type, <<"m","e","r","c","h","a","n","t"," ","c","a","s","h"," ","a","d","v","a","n","c","e">>) THEN 2200
    ELSE base_rate

\* lines 120-123
SecuredAdjustment(secured) == IF secured = "yes" THEN -100 ELSE IF secured = "no" THEN 80 ELSE 0

\* lines 125-130
LenderAdjustment(lender_type) ==
    (IF Contains(lender_type, <<"f","i","n","t","e","c","h">>) THEN 100 ELSE 0)
    + (IF Contains(lender_type, <<"n","b","f","c">>) THEN 50 ELSE 0)
    + (IF Contains(lender_type, <<"c","o","o","p">>) THEN -30 ELSE 0)

\* line 132
RiskAdjustment(risk_category) ==
    IF risk_category = "Low" THEN -70 ELSE IF risk_category = "Medium" THEN 0 ELSE 150

\* max(low, min(high, value)) on integers
ClampInt(value, low, high) ==
    IF value < low THEN low ELSE IF value > high THEN high ELSE value

\* _estimate_interest_rate
EstimateInterestRate(row, risk_category) ==
    ClampInt(TypeBaseRate(Field(row.loan_type), CategoryBaseRate(Field(row.loan_category)))
             + SecuredAdjustment(SecuredLabel(row.secured))
             + LenderAdjustment(Field(row.lender_type))
             + RiskAdjustment(risk_category),
             650, 2800)

\* the end of a match of \d+(?:\.\d+)? whose digits end at e1
TenureMatchEnd(s, e1) ==
    IF e1 + 2 <= Len(s) /\ s[e1 + 1] = "." /\ IsDigit(s[e1 + 2])
    THEN DigitRunEnd(s, e1 + 2) ELSE e1

\* re.findall(r"\d+(?:\.\d+)?", text) from position i on
RECURSIVE TenureFindAll(_, _)
TenureFindAll(s, i) ==
    IF i > Len(s) THEN << >>
    ELSE IF ~IsDigit(s[i]) THEN TenureFindAll(s, i + 1)
    ELSE <<SubSeq(s, i, TenureMatchEnd(s, DigitRunEnd(s, i)))>>
         \o TenureFindAll(s, TenureMatchEnd(s, DigitRunEnd(s, i)) + 1)

\* [float(n) for n in numbers]
TenureValues(numbers) == {ParseUnsigned(numbers[i]).v : i \in 1..Len(numbers)}

MaxOf(S) == CHOOSE a \in S : \A b \in S : b <= a

\* lines 66-70 for the least and the greatest number of years
TenureMonths(min_months, maximum_years) ==
    <<min_months, IF RoundDiv(maximum_years * 12, 100) > min_months
                  THEN RoundDiv(maximum_years * 12, 100) ELSE min_months>>

\* _parse_tenure_months
ParseTenureMonths(tenure_years) ==
    IF TenureFindAll(tenure_years, 1) = << >> THEN <<12, 60>>
    ELSE TenureMonths(IF RoundDiv(MinOf(TenureValues(TenureFindAll(tenure_years, 1))) * 12, 100) > 1
                      THEN RoundDiv(MinOf(TenureValues(TenureFindAll(tenure_years, 1))) * 12, 100)
                      ELSE 1,
                      MaxOf(TenureValues(TenureFindAll(tenure_years, 1))))

\* _recommended_tenure; a half-way value of the High blend may round to the
\* other neighbour in floating point, see MayOverflow and MustOverflow
RecommendedTenure(min_months, max_months, risk_category) ==
    IF max_months <= min_months THEN min_months
    ELSE ClampInt(IF risk_category = "Low" THEN RoundDiv(min_months + 3 * max_months, 4)
                  ELSE IF risk_category = "Medium" THEN RoundDiv(min_months + max_months, 2)
                  ELSE RoundDiv(13 * min_months + 7 * max_months, 20),
                  min_months, max_months)

\* " ".join(...) of two strings
Joined(a, b) == a \o <<" ">> \o b

\* _normalize_text(loan_category, loan_type, sub_type, target_segment, notes)
RowDescription(row) ==
    Joined(Joined(Joined(Joined(Field(row.loan_category), Field(row.loan_type)),
                         Field(row.sub_type)), Field(row.target_segment)), Field(row.notes))

\* lines 168-210 on the normalised text
AmountRangeOf(text) ==
    IF Contains(text, <<"s","h","i","s","h","u">>) THEN <<10000, 50000>>
    ELSE IF Contains(text, <<"k","i","s","h","o","r","e">>) THEN <<50000, 500000>>
    ELSE IF Contains(text, <<"t","a","r","u","n">>) THEN <<500000, 1000000>>
    ELSE IF Contains(text, <<"b","n","p","l">>) THEN <<1000, 50000>>
    ELSE IF Contains(text, <<"c","o","n","s","u","m","e","r"," ","d","u","r","a","b","l","e">>) THEN <<5000, 200000>>
    ELSE IF Contains(text, <<"i","n","s","t","a","n","t"," ","p","e","r","s","o","n","a","l">>) THEN <<5000, 250000>>
    ELSE IF Contains(text, <<"t","w","o"," ","w","h","e","e","l","e","r">>) THEN <<30000, 300000>>
    ELSE IF Contains(text, <<"c","r","o","p"," ","l","o","a","n">>) \/ Contains(text, <<"k","i","s","a","n"," ","c","r","e","d","i","t"," ","c","a","r","d">>)
    THEN <<10000, 500000>>
    ELSE IF Contains(text, <<"e","d","u","c","a","t","i","o","n"," ","l","o","a","n">>) /\ Contains(text, <<"a","b","r","o","a","d">>)
    THEN <<300000, 5000000>>
    ELSE IF Contains(text, <<"e","d","u","c","a","t","i","o","n"," ","l","o","a","n">>) THEN <<100000, 1500000>>
    ELSE IF Contains(text, <<"v","e","h","i","c","l","e"," ","l","o","a","n">>) /\ Contains(text, <<"c","a","r">>) THEN <<150000, 2500000>>
    ELSE IF Contains(text, <<"g","o","l","d"," ","l","o","a","n">>) THEN <<10000, 3000000>>
    ELSE IF Contains(text, <<"h","o","m","e"," ","l","o","a","n">>) \/ Contains(text, <<"a","f","f","o","r","d","a","b","l","e"," ","h","o","u","s","i","n","g">>)
    THEN <<500000, 15000000>>
    ELSE IF Contains(text, <<"l","o","a","n"," ","a","g","a","i","n","s","t"," ","p","r","o","p","e","r","t","y">>) THEN <<500000, 25000000>>
    ELSE IF Contains(text, <<"r","e","v","e","r","s","e"," ","m","o","r","t","g","a","g","e">>) THEN <<500000, 10000000>>
    ELSE IF Contains(text, <<"s","t","a","r","t","u","p"," ","l","o","a","n">>) THEN <<200000, 20000000>>
    ELSE IF Contains(text, <<"i","n","v","o","i","c","e"," ","f","i","n","a","n","c","i","n","g">>) \/ Contains(text, <<"t","r","a","d","e"," ","f","i","n","a","n","c","e">>)
    THEN <<50000, 10000000>>
    ELSE IF Contains(text, <<"m","s","m","e">>) \/ Contains(text, <<"e","q","u","i","p","m","e","n","t"," ","f","i","n","a","n","c","e">>)
    THEN <<100000, 10000000>>
    ELSE IF Contains(text, <<"m","e","r","c","h","a","n","t"," ","c","a","s","h"," ","a","d","v","a","n","c","e">>) THEN <<20000, 1000000>>
    ELSE IF Contains(text, <<"s","e","l","f"," ","h","e","l","p"," ","g","r","o","u","p">>) \/ Contains(text, <<"j","o","i","n","t"," ","l","i","a","b","i","l","i","t","y"," ","g","r","o","u","p">>)
    THEN <<10000, 500000>>
    ELSE IF Contains(text, <<"p","e","r","s","o","n","a","l"," ","l","o","a","n">>) THEN <<20000, 2000000>>
    ELSE <<50000, 3000000>>

\* _amount_range
AmountRange(row) == AmountRangeOf(RowDescription(row))

\* _amount_fit_score
AmountFitScore(requested_amount, min_amount, max_amount) ==
    IF ~QLess(requested_amount, Whole(min_amount)) /\ ~QLess(Whole(max_amount), requested_amount)
    THEN Whole(100)
    ELSE IF QLess(requested_amount, Whole(min_amount))
    THEN Clamp(QSub(Whole(100),
                    QMul(QDiv(QSub(Whole(min_amount), requested_amount), Whole(min_amount)),
                         Whole(160))),
               Whole(0), Whole(100))
    ELSE Clamp(QSub(Whole(100),
                    QMul(QDiv(QSub(requested_amount, Whole(max_amount)), Whole(max_amount)),
                         Whole(160))),
               Whole(0), Whole(100))

\* payload.occupation or ""
OrEmpty(opt) == IF opt = None THEN << >> ELSE opt[1]

\* lines 226-255 on the normalised text
SegmentsOf(text) ==
    {"individual"}
    \cup (IF ContainsAny(text, <<<<"s","a","l","a","r","i","e","d">>, <<"s","a","l","a","r","y">>, <<"e","m","p","l","o","y","e","e">>>>)
          THEN {"salaried"} ELSE {})
    \cup (IF ContainsAny(text, <<<<"s","t","u","d","e","n","t">>, <<"s","t","u","d","y">>, <<"e","d","u","c","a","t","i","o","n">>, <<"c","o","l","l","e","g","e">>>>)
          THEN {"students"} ELSE {})
    \cup (IF ContainsAny(text, <<<<"f","a","r","m","e","r">>, <<"a","g","r","i">>, <<"c","r","o","p">>, <<"a","g","r","i","c","u","l","t","u","r","e">>>>)
          THEN {"farmers"} ELSE {})
    \cup (IF ContainsAny(text, <<<<"b","u","s","i","n","e","s","s">>, <<"s","h","o","p">>, <<"v","e","n","d","o","r">>, <<"m","e","r","c","h","a","n","t">>,
                                 <<"s","e","l","f"," ","e","m","p","l","o","y","e","d">>, <<"s","e","l","f","-","e","m","p","l","o","y","e","d">>, <<"s","m","e">>, <<"m","s","m","e">>,
                                 <<"s","t","a","r","t","u","p">>, <<"e","n","t","r","e","p","r","e","n","e","u","r">>, <<"t","r","a","d","e">>>>)
          THEN {"business"} ELSE {})
    \cup (IF ContainsAny(text, <<<<"w","o","m","a","n">>, <<"w","o","m","e","n">>, <<"f","e","m","a","l","e">>>>) THEN {"women"} ELSE {})

\* _applicant_segments
ApplicantSegments(payload) ==
    SegmentsOf(Joined(Field(OrEmpty(payload.occupation)), Field(OrEmpty(payload.purpose))))

\* lines 260-280 on the normalised target
SegmentFitOf(target, applicant_segments) ==
    IF target = << >> THEN 65
    ELSE IF ContainsAny(target, <<<<"i","n","d","i","v","i","d","u","a","l">>, <<"c","o","n","s","u","m","e","r">>, <<"e","x","i","s","t","i","n","g"," ","b","o","r","r","o","w","e","r">>>>)
    THEN (IF "individual" \in applicant_segments THEN 92 ELSE 70)
    ELSE IF Contains(target, <<"s","a","l","a","r","i","e","d">>)
    THEN (IF "salaried" \in applicant_segments THEN 95 ELSE 62)
    ELSE IF Contains(target, <<"s","t","u","d","e","n","t">>)
    THEN (IF "students" \in applicant_segments THEN 98 ELSE 28)
    ELSE IF Contains(target, <<"f","a","r","m","e","r">>)
    THEN (IF "farmers" \in applicant_segments THEN 98 ELSE 28)
    ELSE IF ContainsAny(target, <<<<"b","u","s","i","n","e","s","s">>, <<"s","m","e">>, <<"m","s","m","e">>, <<"m","i","c","r","o"," ","b","u","s","i","n","e","s","s">>,
                                  <<"s","m","a","l","l"," ","m","e","r","c","h","a","n","t">>, <<"e","n","t","r","e","p","r","e","n","e","u","r">>>>)
    THEN (IF "business" \in applicant_segments THEN 95 ELSE 48)
    ELSE IF Contains(target, <<"w","o","m","e","n">>) \/ Contains(target, <<"s","c","/","s","t","/","w","o","m","e","n">>)
    THEN (IF "women" \in applicant_segments THEN 90 ELSE 44)
    ELSE IF Contains(target, <<"s","e","n","i","o","r">>) THEN 35
    ELSE 65

\* _segment_fit_score
SegmentFitScore(target_segment, applicant_segments) ==
    SegmentFitOf(Field(target_segment), applicant_segments)

\* lines 288-311 in hundredths
MultiplierOf(risk_category, secured, scheme_or_priority, digital) ==
    IF risk_category = "High"
    THEN 100 - 12 + (IF secured = "yes" THEN 20 ELSE 0)
             + (IF scheme_or_priority THEN 12 ELSE 0)
             - (IF digital /\ secured = "no" THEN 18 ELSE 0)
    ELSE IF risk_category = "Medium"
    THEN 100 + (IF secured = "yes" THEN 8 ELSE 0)
             + (IF scheme_or_priority THEN 6 ELSE 0)
             - (IF digital /\ secured = "no" THEN 8 ELSE 0)
    ELSE 100 + (IF secured = "yes" THEN 3 ELSE 0)
             - (IF digital /\ secured = "no" THEN 3 ELSE 0)

\* _risk_product_multiplier
RiskProductMultiplier(row, risk_category) ==
    Q(ClampInt(MultiplierOf(risk_category, SecuredLabel(row.secured),
                            Field(row.loan_category)
                                \in {<<"g","o","v","e","r","n","m","e","n","t"," ","s","c","h","e","m","e">>, <<"p","r","i","o","r","i","t","y"," ","s","e","c","t","o","r">>, <<"a","g","r","i","c","u","l","t","u","r","e">>,
                                     <<"r","u","r","a","l">>},
                            Field(row.loan_category) = <<"d","i","g","i","t","a","l"," ","l","e","n","d","i","n","g">>
                                \/ Contains(Field(row.lender_type), <<"f","i","n","t","e","c","h">>)),
               55, 130),
      100)

\* _benefit_score
BenefitScore(row) ==
    IF Field(row.loan_category) = <<"g","o","v","e","r","n","m","e","n","t"," ","s","c","h","e","m","e">> THEN 75
    ELSE IF Field(row.loan_category) = <<"p","r","i","o","r","i","t","y"," ","s","e","c","t","o","r">> THEN 62
    ELSE IF Field(row.loan_category) = <<"a","g","r","i","c","u","l","t","u","r","e">> THEN 58
    ELSE IF Contains(Field(row.loan_type), <<"h","o","m","e"," ","l","o","a","n">>) \/ Field(row.loan_category) = <<"h","o","u","s","i","n","g">>
    THEN 52
    ELSE IF Contains(Field(row.loan_type), <<"e","d","u","c","a","t","i","o","n"," ","l","o","a","n">>) THEN 44
    ELSE IF Field(row.loan_category) = <<"b","u","s","i","n","e","s","s">> THEN 26
    ELSE IF Field(row.loan_category) = <<"d","i","g","i","t","a","l"," ","l","e","n","d","i","n","g">> THEN 8
    ELSE 18

\* one element of rows_with_meta, lines 337-343
RowMeta(row, payload) ==
    [row |-> row,
     annual_rate |-> EstimateInterestRate(row, payload.risk_category),
     tenure_months |->
        RecommendedTenure(ParseTenureMonths(row.typical_tenure_years)[1],
                          ParseTenureMonths(row.typical_tenure_years)[2],
                          payload.risk_category),
     fit_score |-> AmountFitScore(payload.requested_amount, AmountRange(row)[1],
                                  AmountRange(row)[2]),
     benefit_score |-> BenefitScore(row),
     segment_score |-> SegmentFitScore(row.target_segment, ApplicantSegments(payload))]

RowsWithMeta(catalog_rows, payload) ==
    [i \in 1..Len(catalog_rows) |-> RowMeta(catalog_rows[i], payload)]

\* line 351; the spread is max_rate - min_rate, or 1e-6 under a zero
\* numerator when all rates are equal
LowInterestScore(annual_rate, min_rate, max_rate) ==
    IF max_rate = min_rate THEN Whole(0)
    ELSE Q((max_rate - annual_rate) * 100, max_rate - min_rate)

\* lines 352-355
AdjustedApproval(meta, payload) ==
    Clamp(QMul(payload.approval_probability,
               RiskProductMultiplier(meta.row, payload.risk_category)),
          Whole(1), Q(995, 10))

\* lines 357-363
Score(meta, payload, min_rate, max_rate) ==
    QAdd(QAdd(QAdd(QAdd(QMul(AdjustedApproval(meta, payload), Q(35, 100)),
                        QMul(LowInterestScore(meta.annual_rate, min_rate, max_rate),
                             Q(25, 100))),
                   QMul(meta.fit_score, Q(20, 100))),
              QMul(Whole(meta.segment_score), Q(15, 100))),
         QMul(Whole(meta.benefit_score), Q(5, 100)))

\* (1 + monthly_rate) ** tenure_months exceeds the largest float and raises
\* OverflowError when tenure_months * log(1 + rate / 120000) > 709.78; with
\* x / 1.024 <= log(1 + x) <= x for the rates 6.5 to 28 this is certain
\* above 88000000 / rate months and excluded up to 85000000 / rate months,
\* one month allowed for the rounding of the tenure
MustOverflow(meta) == meta.tenure_months - 1 > 88000000 \div meta.annual_rate

MayOverflow(meta) == meta.tenure_months + 1 > 85000000 \div meta.annual_rate

\* f"{loan_type} - {sub_type} ({typical_lenders})"
DisplayName(row) ==
    Strip(row.loan_type) \o <<" ","-"," ">> \o Strip(row.sub_type) \o <<" ","(">> \o Strip(row.typical_lenders)
    \o <<")">>

\* the LoanRecommendationItem of lines 370-377 with loan_score in hundredths
Item(meta, loan_score) ==
    [lender_name |-> DisplayName(meta.row), loan_score |-> loan_score,
     annual_interest_rate |-> meta.annual_rate]

\* round(x, 2) in hundredths for x >= 0 with whole part w: the nearest
\* hundredth, either neighbour when x is half-way
RoundedHundredths(x, w) ==
    {100 * w + s : s \in Rounded(Q((x.n - w * x.d) * 100, x.d),
                                 ((x.n - w * x.d) * 100) \div x.d)}

\* the items a row can give
ItemsOf(meta, score) ==
    {Item(meta, s) : s \in RoundedHundredths(score, score.n \div score.d)}

\* every list that takes one element from each set of the list
RECURSIVE Choices(_)
Choices(sets) ==
    IF sets = << >> THEN {<< >>}
    ELSE {<<h>> \o t : h \in Head(sets), t \in Choices(Tail(sets))}

\* the lists that the loop of lines 350-378 can build
RankedLists(metas, payload, min_rate, max_rate) ==
    Choices([i \in 1..Len(metas) |->
                ItemsOf(metas[i], Score(metas[i], payload, min_rate, max_rate))])

\* sorted(ranked, key=lambda x: x.loan_score, reverse=True): items of equal
\* score keep their catalog order, line 380
SortedDescending(ranked) ==
    Undecorated(SortedByKey([i \in 1..Len(ranked) |->
                                [key |-> <<<<-ranked[i].loan_score>>>>, item |-> ranked[i]]]))

\* line 381
Recommendation(ranked) ==
    [pc |-> "returned", error |-> "",
     best_option |-> Some(ranked[1]),
     ranked_options |-> SubSeq(ranked, 1, IF Len(ranked) < 10 THEN Len(ranked) ELSE 10)]

Failure(error) == [pc |-> "raised", error |-> error, best_option |-> None, ranked_options |-> << >>]

\* lines 334-381 for the rows with their rates, tenures and scores
RankingOutcomes(metas, payload, min_rate, max_rate) ==
    (IF \E i \in 1..Len(metas) : MayOverflow(metas[i])
     THEN {Failure("OverflowError")} ELSE {})
    \cup
    (IF \E i \in 1..Len(metas) : MustOverflow(metas[i]) THEN {}
     ELSE {Recommendation(SortedDescending(ranked)) :
              ranked \in RankedLists(metas, payload, min_rate, max_rate)})

\* row has a value that is not blank, line 49
NotBlankRow(row) ==
    \E f \in DOMAIN row : Strip(row[f]) # << >>

\* _load_loan_catalog for the rows of the dataset file: the rows that are
\* not blank
LoadLoanCatalog(file_rows) == SelectSeq(file_rows, NotBlankRow)

\* recommend_loans: what the call can end with
RecommendOutcomes(catalog_rows, payload) ==
    IF catalog_rows = << >> THEN {Failure("FileNotFoundError")}
    ELSE RankingOutcomes(RowsWithMeta(catalog_rows, payload), payload,
                         MinOf({RowMeta(catalog_rows[i], payload).annual_rate :
                                    i \in 1..Len(catalog_rows)}),
                         MaxOf({RowMeta(catalog_rows[i], payload).annual_rate :
                                    i \in 1..Len(catalog_rows)}))

\* a row of india_loans_dataset.csv
CatalogRow(category, type, sub_type, lender_type, lenders, segment, secured, tenure, notes) ==
    [loan_id |-> <<"1">>, loan_category |-> category, loan_type |-> type, sub_type |-> sub_type,
     lender_type |-> lender_type, typical_lenders |-> lenders, target_segment |-> segment,
     secured |-> secured, typical_tenure_years |-> tenure, notes |-> notes]

\* a line of separators only
BlankRow ==
    [loan_id |-> << >>, loan_category |-> << >>, loan_type |-> <<" ">>, sub_type |-> << >>,
     lender_type |-> << >>, typical_lenders |-> << >>, target_segment |-> << >>, secured |-> << >>,
     typical_tenure_years |-> << >>, notes |-> << >>]

\* the first three rows are those of the smoke test
BaseCatalog ==
    <<CatalogRow(<<"G","o","v","e","r","n","m","e","n","t"," ","S","c","h","e","m","e">>, <<"M","U","D","R","A">>, <<"S","h","i","s","h","u">>, <<"B","a","n","k","/","M","F","I">>, <<"B","a","n","k","s"," ","&"," ","M","F","I","s">>,
                 <<"M","i","c","r","o"," ","B","u","s","i","n","e","s","s">>, <<"N","o">>, <<"1","-","5">>, <<"S","m","a","l","l"," ","t","i","c","k","e","t">>),
      CatalogRow(<<"R","e","t","a","i","l">>, <<"P","e","r","s","o","n","a","l"," ","L","o","a","n">>, <<"G","e","n","e","r","a","l">>, <<"B","a","n","k","/","N","B","F","C","/","F","i","n","t","e","c","h">>,
                 <<"B","a","n","k","s"," ","&"," ","D","i","g","i","t","a","l"," ","L","e","n","d","e","r","s">>, <<"I","n","d","i","v","i","d","u","a","l","s">>, <<"N","o">>, <<"1","-","5">>, <<"U","n","s","e","c","u","r","e","d"," ","l","o","a","n">>),
      CatalogRow(<<"R","e","t","a","i","l">>, <<"H","o","m","e"," ","L","o","a","n">>, <<"H","o","m","e"," ","P","u","r","c","h","a","s","e">>, <<"B","a","n","k","/","H","F","C">>, <<"B","a","n","k","s"," ","&"," ","H","F","C","s">>,
                 <<"I","n","d","i","v","i","d","u","a","l","s">>, <<"Y","e","s">>, <<"5","-","3","0">>, <<"B","u","y","i","n","g"," ","p","r","o","p","e","r","t","y">>),
      CatalogRow(<<"R","e","t","a","i","l">>, <<"E","d","u","c","a","t","i","o","n"," ","L","o","a","n">>, <<"A","b","r","o","a","d">>, <<"B","a","n","k">>, <<"B","a","n","k","s">>, <<"S","t","u","d","e","n","t","s">>,
                 <<"Y","e","s","/","N","o">>, <<"5","-","1","5">>, <<"S","t","u","d","y"," ","a","b","r","o","a","d">>),
      CatalogRow(<<"A","g","r","i","c","u","l","t","u","r","e">>, <<"C","r","o","p"," ","L","o","a","n">>, <<"K","C","C">>, <<"B","a","n","k","/","C","o","o","p">>, <<"B","a","n","k","s">>, <<"F","a","r","m","e","r","s">>,
                 <<"N","o">>, <<"0",".","5","-","1">>, <<"S","e","a","s","o","n","a","l">>),
      CatalogRow(<<"D","i","g","i","t","a","l"," ","L","e","n","d","i","n","g">>, <<"B","N","P","L">>, <<"C","h","e","c","k","o","u","t">>, <<"F","i","n","t","e","c","h">>, <<"A","p","p","s">>, <<"C","o","n","s","u","m","e","r","s">>,
                 <<"N","o">>, << >>, <<"P","a","y"," ","l","a","t","e","r">>),
      CatalogRow(<<"B","u","s","i","n","e","s","s">>, <<"M","e","r","c","h","a","n","t"," ","C","a","s","h"," ","A","d","v","a","n","c","e">>, <<"P","O","S">>, <<"N","B","F","C","/","F","i","n","t","e","c","h">>, <<"N","B","F","C","s">>,
                 <<"S","m","a","l","l"," ","M","e","r","c","h","a","n","t","s">>, <<"N","o">>, <<"u","p"," ","t","o"," ","2">>, <<"C","a","r","d"," ","s","a","l","e","s">>),
      CatalogRow(<<"R","e","t","a","i","l">>, <<"G","o","l","d"," ","L","o","a","n">>, <<"J","e","w","e","l">>, <<"B","a","n","k","/","N","B","F","C">>, <<"B","a","n","k","s">>, <<"I","n","d","i","v","i","d","u","a","l","s">>,
                 <<"Y","e","s">>, <<"1","-","3">>, <<"A","g","a","i","n","s","t"," ","g","o","l","d">>),
      CatalogRow(<<"P","r","i","o","r","i","t","y"," ","S","e","c","t","o","r">>, <<"S","H","G"," ","L","o","a","n">>, <<"S","e","l","f"," ","H","e","l","p"," ","G","r","o","u","p">>, <<"B","a","n","k">>, <<"B","a","n","k","s">>,
                 <<"W","o","m","e","n">>, <<"N","o">>, <<"1","-","3">>, <<"G","r","o","u","p"," ","l","e","n","d","i","n","g">>),
      CatalogRow(<<"R","e","t","a","i","l">>, <<"P","e","r","s","o","n","a","l"," ","L","o","a","n">>, <<"P","e","n","s","i","o","n","e","r">>, <<"B","a","n","k">>, <<"B","a","n","k","s">>,
                 <<"S","e","n","i","o","r"," ","c","i","t","i","z","e","n","s">>, <<"N","o">>, <<"1","-","5">>, <<"P","e","n","s","i","o","n"," ","b","a","c","k","e","d">>),
      CatalogRow(<<"H","o","u","s","i","n","g">>, <<"L","o","a","n"," ","A","g","a","i","n","s","t"," ","P","r","o","p","e","r","t","y">>, <<"L","A","P">>, <<"B","a","n","k","/","H","F","C">>, <<"B","a","n","k","s"," ","&"," ","H","F","C","s">>,
                 <<"S","a","l","a","r","i","e","d">>, <<"Y","e","s">>, <<"5","-","1","5">>, <<"M","o","r","t","g","a","g","e">>),
      CatalogRow(<<"R","e","t","a","i","l">>, <<"P","e","r","s","o","n","a","l"," ","L","o","a","n">>, <<"G","e","n","e","r","a","l">>, <<"B","a","n","k","/","N","B","F","C","/","F","i","n","t","e","c","h">>,
                 <<"B","a","n","k","s"," ","&"," ","D","i","g","i","t","a","l"," ","L","e","n","d","e","r","s">>, <<"I","n","d","i","v","i","d","u","a","l","s">>, <<"N","o">>, <<"1","-","5">>, <<"U","n","s","e","c","u","r","e","d"," ","l","o","a","n">>),
      CatalogRow(<<"R","e","t","a","i","l">>, <<"V","e","h","i","c","l","e"," ","L","o","a","n">>, <<"C","a","r">>, <<"B","a","n","k">>, <<"B","a","n","k","s">>, <<"I","n","d","i","v","i","d","u","a","l","s">>, <<"Y","e","s">>,
                 <<"9","0","0","0","0">>, <<"T","e","n","u","r","e"," ","m","i","s","t","y","p","e","d">>)>>

\* dataset files: no row, blank rows only, and every run of rows of the base
\* catalog, alone or behind a blank row
CatalogFiles ==
    {<< >>, <<BlankRow>>}
    \cup {SubSeq(BaseCatalog, i, j) : i \in 1..Len(BaseCatalog), j \in 1..Len(BaseCatalog)}
    \cup {<<BlankRow>> \o SubSeq(BaseCatalog, i, i + 1) : i \in 1..(Len(BaseCatalog) - 1)}

\* a LoanRecommendationRequest
LoanRequest(amount, risk_category, approval, occupation, purpose) ==
    [requested_amount |-> amount, risk_category |-> risk_category,
     approval_probability |-> approval, occupation |-> occupation, purpose |-> purpose]

LoanRequests ==
    {LoanRequest(amount, risk_category, approval, who[1], who[2]) :
        amount \in {Whole(5000), Whole(120000), Whole(30000000)},
        risk_category \in {"Low", "Medium", "High"},
        approval \in {Whole(0), Whole(70), Q(995, 10)},
        who \in {<<None, None>>, <<Some(<<"S","t","r","e","e","t"," ","V","e","n","d","o","r">>), Some(<<"s","h","o","p"," ","s","t","o","c","k">>)>>,
                 <<Some(<<"s","t","u","d","e","n","t">>), None>>}}

\* recommend_loans
RecommendLoans ==
    /\ loans.pc = "called"
    /\ \E outcome \in RecommendOutcomes(LoadLoanCatalog(loans.file), loans.payload) :
        loans' = [pc |-> outcome.pc, file |-> loans.file, payload |-> loans.payload,
                  response |-> outcome]
    /\ UNCHANGED <<statement, storage, lock, adds, risk>>

InitLoans ==
    /\ IdleStatement
    /\ storage = << >> /\ lock = None /\ adds = << >>
    /\ risk = None
    /\ \E file \in CatalogFiles : \E payload \in LoanRequests :
        loans = [pc |-> "called", file |-> file, payload |-> payload,
                 response |-> Failure("")]

NextLoans == RecommendLoans

SpecLoans == InitLoans /\ [][NextLoans]_vars

\* the catalog that _load_loan_catalog returns for the call has a row
CatalogHasRow == LoadLoanCatalog(loans.file) # << >>

\* options is in descending order of loan_score
DescendingScores(options) ==
    \A i \in 1..(Len(options) - 1) : options[i].loan_score >= options[i + 1].loan_score

\* C19: whenever the catalog has at least one row, recommend_loans returns
\* a non-empty ranked_options list of at most 10 items in descending order
\* of loan_score, and best_option is an item whose loan_score is greater
\* than or equal to the loan_score of every item of ranked_options
C19_RankedTopTen ==
    (loans.pc # "called" /\ CatalogHasRow) =>
        /\ loans.pc = "returned"
        /\ Len(loans.response.ranked_options) \in 1..10
        /\ DescendingScores(loans.response.ranked_options)
        /\ loans.response.best_option # None
        /\ \A i \in 1..Len(loans.response.ranked_options) :
                loans.response.best_option[1].loan_score
                    >= loans.response.ranked_options[i].loan_score

\* C19 for the calls that return: the ranking is as stated whenever
\* recommend_loans returns
C19_RankedWhenReturned ==
    loans.pc = "returned" =>
        /\ CatalogHasRow
        /\ Len(loans.response.ranked_options) \in 1..10
        /\ DescendingScores(loans.response.ranked_options)
        /\ loans.response.best_option = Some(loans.response.ranked_options[1])

(***************************************************************************)
(* Classification rules                                                    *)
(***************************************************************************)
\* the rows of a table with resolved debit and credit columns have been
\* classified
DualClassified == pc = "normalized" /\ ~IsEmpty(raw) /\ DualResolved

\* the coerced cells of the loaded table under the debit and the credit role
DebitCells == ColumnNums(WorkFrame(raw), detected.debit_col)

CreditCells == ColumnNums(WorkFrame(raw), detected.credit_col)

SignClassified ==
    /\ pc = "normalized" /\ ~IsEmpty(raw)
    /\ ~DualResolved
    /\ ~Truthy(detected.type_col)
    /\ ~Truthy(detected.description_col)
    /\ Truthy(detected.amount_col)

IsNumber(x) == ~x.nan

\* the raw amounts that are numbers, in row order
NumericRawAmounts == SelectSeq(RawAmounts, IsNumber)

\* the canonical rows are those of the raw amounts given, typed by their sign
TypedBySign(rows, amounts) ==
    /\ Len(rows) = Len(amounts)
    /\ \A i \in 1..Len(rows) :
          /\ rows[i].type = (IF amounts[i].v < 0 THEN "debit" ELSE "credit")
          /\ rows[i].amount = Num(Abs(amounts[i].v))

\* C22: when neither debit and credit columns, nor a type column, nor a
\* description column is resolved, a row's type is decided by the sign of
\* the raw amount before the absolute value is taken: negative gives debit,
\* non-negative gives credit.
C22_SignOfRawAmount == SignClassified => TypedBySign(canon, NumericRawAmounts)

\* C22 witness: the negative branch has been taken: one table gave a debit
\* from a negative raw amount and a credit from a raw amount of zero or more
C22_Witness ==
    /\ SignClassified
    /\ \E i \in 1..Len(canon) :
          NumericRawAmounts[i].v < 0 /\ canon[i].type = "debit" /\ canon[i].amount.v > 0
    /\ \E i \in 1..Len(canon) : NumericRawAmounts[i].v >= 0 /\ canon[i].type = "credit"

(***************************************************************************)
(* Column resolution                                                       *)
(***************************************************************************)
\* header i, normalised, contains keyword k
Holds(columns, keywords, i, k) == Contains(NormalizeColName(columns[i]), keywords[k])

\* hit is what the claim says _find_column returns for the keywords: none
\* exactly when no header contains any keyword, otherwise the first header
\* in column order that contains the earliest keyword contained by any
\* header
FirstOfEarliestKeyword(columns, keywords, hit) ==
    IF hit = None
    THEN \A i \in 1..Len(columns) : \A k \in 1..Len(keywords) : ~Holds(columns, keywords, i, k)
    ELSE \E i \in 1..Len(columns) : \E k \in 1..Len(keywords) :
            /\ columns[i] = hit[1]
            /\ Holds(columns, keywords, i, k)
            /\ \A j \in 1..(i - 1) : ~Holds(columns, keywords, j, k)
            /\ \A e \in 1..(k - 1) : \A j \in 1..Len(columns) : ~Holds(columns, keywords, j, e)

\* some header contains an amount keyword
AmountNamed(columns) ==
    \E i \in 1..Len(columns) : \E k \in 1..Len(AmountKeywords) :
        Holds(columns, AmountKeywords, i, k)

\* the roles of the loaded table have been resolved
RolesResolved == pc = "normalized"

\* the detected roles are each the first header of the earliest keyword
DetectedAsClaimed(columns) ==
    /\ FirstOfEarliestKeyword(columns, DateKeywords, detected.date_col)
    /\ FirstOfEarliestKeyword(columns, BalanceKeywords, detected.balance_col)
    /\ FirstOfEarliestKeyword(columns, TypeKeywords, detected.type_col)
    /\ FirstOfEarliestKeyword(columns, DescriptionKeywords, detected.description_col)
    /\ FirstOfEarliestKeyword(columns, DebitKeywords, detected.debit_col)
    /\ FirstOfEarliestKeyword(columns, CreditKeywords, detected.credit_col)
    /\ (~DualResolved /\ AmountNamed(columns))
           => FirstOfEarliestKeyword(columns, AmountKeywords, detected.amount_col)

\* C23: for each role _find_column returns the first header in column order
\* that contains the earliest keyword of the role's list contained by any
\* header, keyword priority dominating column order, and returns none
\* exactly when no header contains any keyword of the role.
C23_KeywordPriority == RolesResolved => DetectedAsClaimed(WorkFrame(raw).columns)

\* C23 witness: keyword priority has dominated column order: the resolved
\* balance header stands behind another header that contains a later
\* balance keyword, and a role without any matching header is unresolved
C23_Witness ==
    /\ RolesResolved
    /\ Truthy(detected.balance_col)
    /\ \E i \in 1..Len(raw.columns) : \E j \in 1..(i - 1) :
          /\ Strip(raw.columns[i]) = detected.balance_col[1]
          /\ \E k \in 1..Len(BalanceKeywords) :
                Holds(WorkFrame(raw).columns, BalanceKeywords, j, k)
    /\ detected.type_col = None

(***************************************************************************)
(* The best-numeric-column fallback                                        *)
(***************************************************************************)
\* line 557 is reached with amount_col None: _best_numeric_column is called
FallbackUsed ==
    /\ pc = "normalized"
    /\ ~IsEmpty(raw)
    /\ ~DualResolved
    /\ ~AmountNamed(WorkFrame(raw).columns)

\* the columns other than the resolved date and balance columns
Eligible(work) ==
    {i \in 1..Len(work.columns) :
        /\ Some(work.columns[i]) # detected.date_col
        /\ Some(work.columns[i]) # detected.balance_col}

\* column i has the highest fraction of numeric values among the eligible
HighestFraction(work, i) ==
    /\ i \in Eligible(work)
    /\ \A j \in Eligible(work) : NumericCount(work, j) <= NumericCount(work, i)

\* the fraction of numeric values of column i is below 30%
BelowThreshold(work, i) == 10 * NumericCount(work, i) < 3 * Len(work.rows)

\* the amount role after the fallback: none when there is no eligible column
\* or the best fraction is below 30%, otherwise a column of highest fraction
SelectedByFraction(work) ==
    IF \A i \in Eligible(work) : BelowThreshold(work, i)
    THEN detected.amount_col = None /\ canon = << >>
    ELSE \E i \in Eligible(work) :
            /\ HighestFraction(work, i)
            /\ detected.amount_col = Some(work.columns[i])

\* the call has returned for a table whose amount role stayed unresolved
UnresolvedAmountReturned ==
    /\ pc = "done"
    /\ ~IsEmpty(raw)
    /\ ~DualResolved
    /\ detected.amount_col = None

\* the selection of the fallback and the summary of an unresolved amount
FallbackSelection ==
    /\ FallbackUsed => SelectedByFraction(WorkFrame(raw))
    /\ UnresolvedAmountReturned => result = Some(ZeroSummary)

\* C24: the best-numeric-column fallback is used only when none of the
\* amount, debit and credit roles resolves; it selects, among the columns
\* other than the resolved date and balance columns, the one with the
\* highest fraction of numeric values, and below 30% the amount stays
\* unresolved for every row and the summary is all-zero.
C24_FallbackWhenNothingResolves ==
    /\ FallbackUsed => (detected.debit_col = None /\ detected.credit_col = None)
    /\ FallbackSelection

\* C24, the part that holds: whenever the fallback runs, with or without a
\* lone debit or credit column, it selects as stated
C24_FallbackSelects == FallbackSelection

\* the fallback has run both ways: a column of the highest fraction chosen,
\* and no column reaching 30%
C24_FallbackRan ==
    \/ FallbackUsed /\ Truthy(detected.amount_col) /\ Len(raw.columns) > 1
    \/ UnresolvedAmountReturned /\ Len(raw.rows) > 0 /\ tag # "text_fallback"

(***************************************************************************)
(* The rows of the text extractor                                          *)
(***************************************************************************)
\* _extract_text_transactions has returned and its frame is the loaded one
TextExtracted == pc = "loaded" /\ called # << >> /\ called[Len(called)].name = "text"

\* the numeric tokens of a line after trimming
TokensOf(raw_line) == AmountFindAll(Strip(raw_line), 1)

\* a line of at least 5 characters after trimming with a numeric token
HasRow(raw_line) == Len(Strip(raw_line)) >= 5 /\ TokensOf(raw_line) # << >>

\* the lines that have a row, in line order
RowLines == SelectSeq(contents.text, HasRow)

\* the value of a numeric token
TokenValue(n) == TokenFloat(n).v

\* description, amount and balance of a row as the sentence gives them
RowAsStated(row, tokens, line) ==
    /\ row[2] = StrCell(line)
    /\ row[3] = FloatCell(Abs(TokenValue(tokens[1])))
    /\ row[4] = IF Len(tokens) >= 2 THEN FloatCell(TokenValue(tokens[Len(tokens)]))
                ELSE NaNCell

\* the same with the balance as an absolute value
RowWithAbsBalance(row, tokens, line) ==
    /\ row[2] = StrCell(line)
    /\ row[3] = FloatCell(Abs(TokenValue(tokens[1])))
    /\ row[4] = IF Len(tokens) >= 2 THEN FloatCell(Abs(TokenValue(tokens[Len(tokens)])))
                ELSE NaNCell

\* C25: _extract_text_transactions emits exactly one row, in line order, for
\* each line of at least 5 characters after trimming with a numeric token
\* and none for any other line; the amount is the absolute value of the
\* first token, the balance the last token when there are two or more and
\* missing otherwise, the description the line.
C25_OneRowPerLine ==
    TextExtracted =>
        /\ Len(raw.rows) = Len(RowLines)
        /\ \A i \in 1..Len(raw.rows) :
              RowAsStated(raw.rows[i], TokensOf(RowLines[i]), Strip(RowLines[i]))

\* C25 amended: as C25 with the balance the absolute value of the last
\* token and the description the trimmed line.
C25_OneRowPerLineAmended ==
    TextExtracted =>
        /\ Len(raw.rows) = Len(RowLines)
        /\ \A i \in 1..Len(raw.rows) :
              RowWithAbsBalance(raw.rows[i], TokensOf(RowLines[i]), Strip(RowLines[i]))

\* C25 witness: a text of three lines of which the short one has no row;
\* the first row's last token is negative and its balance is positive, the
\* second row's description is the line without its surrounding blanks
C25_Witness ==
    /\ TextExtracted
    /\ Len(contents.text) = 3
    /\ ~HasRow(contents.text[2])
    /\ Len(raw.rows) = 2
    /\ TokenValue(TokensOf(contents.text[1])[3]) < 0
    /\ raw.rows[1][4] = FloatCell(100)
    /\ raw.rows[2][2] # StrCell(contents.text[3])

(***************************************************************************)
(* The summary against its reference definition                            *)
(***************************************************************************)
\* the sum of the amounts of the rows of one type
RECURSIVE TotalOf(_, _)
TotalOf(rows, type) ==
    IF rows = << >> THEN 0
    ELSE (IF Head(rows).type = type THEN Head(rows).amount.v ELSE 0) + TotalOf(Tail(rows), type)

\* the sum of the squared amounts of the rows of one type
RECURSIVE SquaresOf(_, _)
SquaresOf(rows, type) ==
    IF rows = << >> THEN 0
    ELSE (IF Head(rows).type = type THEN Head(rows).amount.v * Head(rows).amount.v ELSE 0)
         + SquaresOf(Tail(rows), type)

\* the sum of the present balances
RECURSIVE BalanceTotal(_)
BalanceTotal(rows) ==
    IF rows = << >> THEN 0
    ELSE (IF Head(rows).balance.nan THEN 0 ELSE Head(rows).balance.v) + BalanceTotal(Tail(rows))

CountOf(rows, type) == Cardinality({i \in 1..Len(rows) : rows[i].type = type})

BalanceCount(rows) == Cardinality({i \in 1..Len(rows) : ~rows[i].balance.nan})

\* m is total / n rounded to the nearest unit
IsRoundedMean(m, total, n) == 2 * (m * n - total) <= n /\ 2 * (total - m * n) <= n

\* v, in ten-thousandths, is the population standard deviation of n values
\* in hundredths with the given sum and sum of squares, rounded to the
\* nearest unit: n * v / 100 is the root of n * squares - total^2
IsRoundedDeviation(v, total, squares, n) ==
    /\ v >= 0
    /\ (2 * v * n - n) * (2 * v * n - n) <= 40000 * (n * squares - total * total)
           \/ 2 * v * n <= n
    /\ 40000 * (n * squares - total * total) <= (2 * v * n + n) * (2 * v * n + n)

\* a description with a payment-app marker, in any case
HasMarker(description) ==
    \E k \in 1..Len(UpiMarkers) : Contains(Lower(description), UpiMarkers[k])

\* the summary s is the reference summary of the rows
IsReferenceSummary(s, rows, described) ==
    /\ s.monthly_income_estimate = TotalOf(rows, "credit")
    /\ s.monthly_expense_estimate = TotalOf(rows, "debit")
    /\ IF BalanceCount(rows) = 0 THEN s.avg_monthly_balance = 0
       ELSE IsRoundedMean(s.avg_monthly_balance, BalanceTotal(rows), BalanceCount(rows))
    /\ IF CountOf(rows, "credit") < 2 THEN s.income_volatility_index = 0
       ELSE IsRoundedDeviation(s.income_volatility_index, TotalOf(rows, "credit"),
                               SquaresOf(rows, "credit"), CountOf(rows, "credit"))
    /\ s.upi_transaction_frequency =
          IF described
          THEN Cardinality({i \in 1..Len(rows) : HasMarker(rows[i].description)})
          ELSE CountOf(rows, "debit")

\* Summarize has returned the summary of a non-empty canonical table
Summarized == pc = "done" /\ canon # << >>

\* C26: for every non-empty set of canonical transactions the summary is the
\* reference one: the sums of the credit and of the debit amounts, the mean
\* of the present balances or 0, the population standard deviation of the
\* credit amounts or 0 with fewer than two credits, and the number of
\* descriptions with a payment-app marker when a description column was
\* resolved, otherwise the number of debit transactions; each rounded.
C26_ReferenceSummary ==
    Summarized => IsReferenceSummary(result[1], canon, detected.description_col # None)

\* C26 witness: two credits of different amounts, so that the deviation is
\* not 0, with balances present
C26_Witness ==
    /\ Summarized
    /\ CountOf(canon, "credit") = 2
    /\ canon[1].amount # canon[2].amount
    /\ result[1].income_volatility_index > 0
    /\ BalanceCount(canon) > 0

\* the count of debits stands in for the marker count without descriptions
C26_DebitProxy ==
    /\ Summarized
    /\ detected.description_col = None
    /\ result[1].upi_transaction_frequency > 0

(***************************************************************************)
(* Concurrent add_entry calls on one instance                              *)
(***************************************************************************)
\* the i-th call enters or leaves its with block (lines 114 and 124)
LockStep(i) == i <= Len(adds) /\ (AcquireAndLoad(i) \/ Return(i))

\* the i-th call takes a step inside its with block (lines 115-121)
BlockStep(i) == i <= Len(adds) /\ (Save(i) \/ Report(i))

\* the i-th call can take a step inside its with block: it is about to
\* save, or about to report and the lock is its own
CanBlockStep(i) ==
    /\ i <= Len(adds)
    /\ \/ adds[i].pc = "loaded"
       \/ adds[i].pc = "saved" /\ CanAcquire(i)

\* WF_vars(BlockStep(i)) with the enabling condition written out
BlockScheduled(i) == []<>(~CanBlockStep(i)) \/ []<><<BlockStep(i)>>_vars

\* the ledger with the thread of every call scheduled whenever it can run
SpecLedgerFair ==
    SpecLedger /\ \A i \in 1..MaxAdds : WF_vars(LockStep(i)) /\ BlockScheduled(i)

\* the i-th call has returned or raised
Ended(i) == adds[i].pc \in {"returned", "raised"}

\* every call made so far has ended
AllEnded == \A i \in 1..Len(adds) : Ended(i)

\* the calls that saved their record
Saved == {i \in 1..Len(adds) : adds[i].pc \in {"saved", "responding", "returned"}}

\* the number of places of the file that hold the record
Copies(file, record) == Cardinality({k \in 1..Len(file) : file[k] = record})

\* the file holds the record of every call that saved, once, and beside
\* them only entries of the earlier file, each once
NoLostUpdate ==
    /\ \A i \in Saved : Copies(storage, adds[i].record[1]) = 1
    /\ \A k \in 1..Len(storage) :
          \/ \E i \in Saved : storage[k] = adds[i].record[1]
          \/ Copies(EarlierFile, storage[k]) = 1 /\ Copies(storage, storage[k]) = 1

\* no step takes an entry out of the file
NothingRemoved == \A k \in 1..Len(storage) : Copies(storage', storage[k]) >= 1

\* C27: for any interleaving of concurrent add_entry calls on one instance
\* the load-append-sort-save sequence of each call is atomic: storage holds
\* every added entry exactly once and loses none, and each call terminates
\* although it takes the instance lock again for its day summary (of the
\* at most MaxAdds calls all have ended from some point on).
C27_AtomicAdds ==
    /\ []NoLostUpdate
    /\ [][NothingRemoved]_vars
    /\ <>[]AllEnded

\* C27 witness: the second call overtook the first, which then loaded the
\* file with the second call's record while holding the lock
C27_Witness ==
    /\ Len(adds) = 2
    /\ adds[2].pc = "returned"
    /\ adds[1].pc = "saved"
    /\ lock # None
    /\ Copies(adds[1].entries, adds[2].record[1]) = 1
    /\ Copies(storage, adds[1].record[1]) = 1
    /\ Copies(storage, adds[2].record[1]) = 1

(***************************************************************************)
(* No backtracking after the loader commits                                *)
(***************************************************************************)
\* some strategy has returned a non-empty table
Committed == \E k \in 1..Len(called) : called[k].won

\* no strategy and no text extraction is tried, and the table stays
NothingTried == called' = called /\ raw' = raw /\ tag' = tag

\* the committed table gave no canonical transaction and the call returned
CommittedToNothing == Committed /\ pc = "done" /\ canon = << >>

\* the strategy at position k of the loader list would return a table with
\* canonical transactions
WouldProduce(k) ==
    /\ Wins(Invoke(loaders[k].fn, contents))
    /\ NormalizeStatement(Invoke(loaders[k].fn, contents).df).rows # << >>

\* the text extractor would return rows with canonical transactions
TextWouldProduce ==
    /\ ~IsEmpty(ExtractTextTransactions(contents.text))
    /\ NormalizeStatement(ExtractTextTransactions(contents.text)).rows # << >>

\* C28: the pipeline never backtracks after the loader commits: once some
\* strategy has returned a non-empty table no later strategy and no text
\* fallback is tried, and when that table normalises to zero canonical
\* transactions the call returns the all-zero summary.
C28_NoBacktracking ==
    /\ [][Committed => NothingTried]_vars
    /\ [](CommittedToNothing => result = Some(ZeroSummary))

\* C28 witness: the all-zero summary was returned for the committed table
\* although a later strategy and the text extractor would both have
\* produced transactions
C28_Witness ==
    /\ CommittedToNothing
    /\ result = Some(ZeroSummary)
    /\ Len(called) = li
    /\ \E k \in (li + 1)..Len(loaders) : WouldProduce(k)
    /\ TextWouldProduce

(***************************************************************************)
(* Dates in text lines                                                     *)
(***************************************************************************)
\* the first digit run of the line belongs to its date match
DateLeads(line) ==
    /\ DateSearch(line) # << >>
    /\ \A j \in 1..(FirstDatePos(line) - 1) : ~IsDigit(line[j])

\* the leading number of the date match, in hundredths
DateLeadingNumber(line) ==
    100 * DigitsToInt(SubSeq(line, FirstDatePos(line), DigitRunEnd(line, FirstDatePos(line))))

\* the row of a line led by a date: the amount is the date's leading number
\* and the balance the last numeric token of the line
DateTakenAsAmount(row, tokens, line) ==
    /\ row[1] = StrCell(DateSearch(line))
    /\ row[3] = FloatCell(DateLeadingNumber(line))
    /\ Len(tokens) >= 3
    /\ row[4] = FloatCell(Abs(TokenValue(tokens[Len(tokens)])))

\* the row of the example line: amount 2026, balance 45000.00
ScenarioLineRead ==
    /\ Len(TextRows(<<ScenarioLine>>)) = 1
    /\ TextRows(<<ScenarioLine>>)[1][3] = FloatCell(202600)
    /\ TextRows(<<ScenarioLine>>)[1][4] = FloatCell(4500000)

\* C29: the numeric-token scan of _extract_text_transactions does not
\* exclude the characters of the date: for a line whose first digit run
\* belongs to a date the row's amount is the date's leading number and the
\* trailing figure becomes the balance; for the example line these are 2026
\* and 45000.00.
C29_DateReadAsAmount ==
    /\ ScenarioLineRead
    /\ TextExtracted =>
          \A i \in 1..Len(raw.rows) :
              DateLeads(Strip(RowLines[i])) =>
                  DateTakenAsAmount(raw.rows[i], TokensOf(RowLines[i]), Strip(RowLines[i]))

\* C29 witness: the text extractor has read a line with a day-first date
\* and a trailing figure: the amount is the day, the balance the figure
C29_Witness ==
    /\ TextExtracted
    /\ Len(raw.rows) = 1
    /\ DateLeads(Strip(contents.text[1]))
    /\ raw.rows[1][1] = StrCell(<<"0", "3", "/", "0", "2", "/", "2", "0", "2", "6">>)
    /\ raw.rows[1][3] = FloatCell(300)
    /\ raw.rows[1][4] = FloatCell(80)

(***************************************************************************)
(* get_report with a date filter                                           *)
(***************************************************************************)
\* number of calls of get_report
MaxReports == 1

\* the records that add_entry built for the payloads, one call per payload
RecordPool ==
    <<NewRecord(Payload(<<"u","1">>, <<2026, 2, 1>>, "inflow", 100000), 1, 1),
      NewRecord(Payload(<<" ","u","1"," ">>, <<2026, 1, 31>>, "outflow", 25050), 2, 2),
      NewRecord(Payload(<<"u","1">>, <<2026, 2, 3>>, "inflow", 7), 3, 3),
      NewRecord(Payload(<<"u","2">>, <<2026, 2, 1>>, "outflow", 500), 4, 3)>>

\* the ascending sequence of the members of a set of positions
RECURSIVE Ascending(_)
Ascending(set) ==
    IF set = {} THEN << >>
    ELSE <<MinOf(set)>> \o Ascending(set \ {MinOf(set)})

\* the files that up to MaxAdds calls of add_entry leave behind, on no file
\* or on the file of an earlier run
LedgerFiles ==
    {SortEntries(before \o [k \in 1..Len(Ascending(added)) |-> RecordPool[Ascending(added)[k]]]) :
        before \in {<< >>, EarlierFile},
        added \in {s \in SUBSET (1..Len(RecordPool)) : Cardinality(s) <= MaxAdds}}

ReportUsers == {<<"u","1">>, <<" ","u","2">>, <<"u","3">>, <<" "," ">>}

ReportDates == {None, Some(<<2026, 2, 1>>), Some(<<2026, 2, 2>>)}

\* the arguments of a call of get_report
ReportArgs(user_id, start_date, end_date) ==
    [user_id |-> user_id, start_date |-> start_date, end_date |-> end_date]

\* get_report, lines 126-156: a blank user_id raises ValueError; the lock is
\* taken for the load only
GetReportCall(user_id, start_date, end_date) ==
    /\ Len(adds) < MaxReports
    /\ lock = None
    /\ IF Strip(user_id) = << >>
       THEN adds' = Append(adds, AddCall("raised", ReportArgs(user_id, start_date, end_date),
                                         None, << >>, None, None))
       ELSE adds' = Append(adds, AddCall("reported",
                                         ReportArgs(user_id, start_date, end_date), None,
                                         storage,
                                         Some(GetReport(storage, user_id, start_date, end_date)),
                                         None))
    /\ UNCHANGED <<storage, lock, ledgerFrame>>

InitReports ==
    /\ IdleStatement
    /\ storage \in LedgerFiles
    /\ lock = None
    /\ adds = << >>
    /\ risk = None
    /\ loans = None

NextReports ==
    \E user_id \in ReportUsers : \E start_date \in ReportDates : \E end_date \in ReportDates :
        GetReportCall(user_id, start_date, end_date)

SpecReports == InitReports /\ [][NextReports]_vars

\* the amount of an entry with its sign
Signed(x) == IF x.entry_type = "inflow" THEN x.amount ELSE 0 - x.amount

\* inflow less outflow of the user's entries of the file dated before the
\* day (every entry when the day is none)
RECURSIVE NetBefore(_, _, _)
NetBefore(file, user_id, day) ==
    IF file = << >> THEN 0
    ELSE (IF /\ Head(file).user_id = user_id
             /\ (day = None \/ DateLess(FromIsoFormat(Head(file).entry_date), day[1]))
          THEN Signed(Head(file)) ELSE 0)
         + NetBefore(Tail(file), user_id, day)

\* the date lies in the range of the call
InRange(d, args) ==
    /\ (args.start_date = None \/ ~DateLess(d, args.start_date[1]))
    /\ (args.end_date = None \/ ~DateLess(args.end_date[1], d))

\* the days of the user in the file
DaysOf(file, user_id) ==
    {FromIsoFormat(file[k].entry_date) : k \in {j \in 1..Len(file) : file[j].user_id = user_id}}

\* the report of a call lists the entries and days in range and nothing of
\* the balances depends on the range
FilterOnlyLists(file, args, report, user_id) ==
    /\ report.current_balance = NetBefore(file, user_id, None)
    /\ {report.daily_summaries[k].entry_date : k \in 1..Len(report.daily_summaries)}
          = {d \in DaysOf(file, user_id) : InRange(d, args)}
    /\ \A k \in 1..Len(report.daily_summaries) :
          /\ report.daily_summaries[k].opening_balance
                = NetBefore(file, user_id, Some(report.daily_summaries[k].entry_date))
          /\ report.daily_summaries[k]
                \in {GetReport(file, user_id, None, None).daily_summaries[j] :
                        j \in 1..Len(GetReport(file, user_id, None, None).daily_summaries)}
    /\ Len(report.entries)
          = Cardinality({j \in 1..Len(file) :
                            /\ file[j].user_id = user_id
                            /\ InRange(FromIsoFormat(file[j].entry_date), args)})
    /\ \A k \in 1..Len(report.entries) :
          report.entries[k].user_id = user_id /\ InRange(report.entries[k].entry_date, args)
    /\ report = GetReport(Filtered(file, user_id), user_id, args.start_date, args.end_date)

\* the calls of get_report that returned
Reported == {i \in 1..Len(adds) : adds[i].pc = "reported"}

\* C30: the date filter of get_report only restricts which entries and daily
\* summaries are listed: for every start_date and end_date current_balance
\* is the closing balance of the user's latest day over the whole history,
\* each listed summary's opening_balance carries the running balance of all
\* earlier days, also those before start_date, and entries of other users
\* never affect the result.
C30_FilterOnlyLists ==
    \A i \in Reported :
        FilterOnlyLists(adds[i].entries, adds[i].payload, adds[i].report[1],
                        Strip(adds[i].payload.user_id))

\* C30 witness: a report from a start date on, of a user with earlier days:
\* the first listed day opens with their balance, the listed days end before
\* the user's latest day, and the file holds another user's entry
C30_Witness ==
    \E i \in Reported :
        /\ adds[i].payload.start_date # None
        /\ adds[i].payload.end_date # None
        /\ adds[i].report[1].daily_summaries # << >>
        /\ adds[i].report[1].daily_summaries[1].opening_balance # 0
        /\ adds[i].report[1].current_balance
              # adds[i].report[1].daily_summaries[Len(adds[i].report[1].daily_summaries)].closing_balance
        /\ \E k \in 1..Len(storage) : storage[k].user_id # Strip(adds[i].payload.user_id)
====
